---- MODULE Spec2Model ----
(***************************************************************************)
(* Timing reconciliation of a DJ-set tracklist:                            *)
(* whats_this_id/core/parsers/timing_utils.py, class TimingUtils.          *)
(*                                                                         *)
(* A DomainTrack is a mutable Python object; lists hold references.  The  *)
(* model keeps a heap (sequence of track records, index = reference) and   *)
(* lists of references, so in-place mutation through an alias is visible   *)
(* exactly as in the code.                                                 *)
(*                                                                         *)
(* Strings are sequences of one-character strings.  A time string is the   *)
(* sequence of its ':'-separated integer components (<<1, 30>> is "01:30", *)
(* <<0, 1, 30>> is "00:01:30"); the empty sequence is a falsy value (None  *)
(* or "").  A timedelta is an integer number of half seconds, the finest   *)
(* value the code can produce (the midpoint of a whole-second gap).        *)
(***************************************************************************)
EXTENDS Integers, Sequences, FiniteSets, TLC

\* ------------------------------------------------------------------ bounds
MaxTracks == 3

\* most ':'-separated parts of a time string given to the duration functions
MaxParts == 4

\* most elements of a parsed document
MaxElements == 2

\* most suffixes after the title of a track name given to the cleaners
MaxSuffixes == 2

\* --------------------------------------------------------------- utilities
Last(s) == s[Len(s)]

Range(s) == {s[k] : k \in DOMAIN s}

\* str.lower() on the alphabet the model uses
LowerChar(c) ==
    CASE c = "A" -> "a"
      [] c = "B" -> "b"
      [] c = "C" -> "c"
      [] c = "D" -> "d"
      [] c = "I" -> "i"
      [] c = "T" -> "t"
      [] OTHER -> c

Lower(s) == [k \in DOMAIN s |-> LowerChar(s[k])]

\* str.strip()
RECURSIVE Strip(_)
Strip(s) ==
    IF s = <<>> THEN s
    ELSE IF Head(s) = " " THEN Strip(Tail(s))
    ELSE IF Last(s) = " " THEN Strip(SubSeq(s, 1, Len(s) - 1))
    ELSE s

\* datetime.timedelta(seconds=n), in half seconds
timedelta(n) == 2 * n

\* falsy time string (None or "")
NoTime == <<>>

\* track_number=None
NoNumber == 0

\* outcome of parse_time when it raises ValueError
ValueError == -1

\* TimingUtils.parse_time
parse_time(t) ==
    IF Len(t) = 2 THEN timedelta(60 * t[1] + t[2])
    ELSE IF Len(t) = 3 THEN timedelta(3600 * t[1] + 60 * t[2] + t[3])
    ELSE ValueError

\* variant: minutes taken from the total instead of the remainder of the hours
format_time_NoRemainder(td) ==
    LET total_seconds == IF td >= 0 THEN td \div 2 ELSE 0 - ((0 - td) \div 2)
    IN  <<total_seconds \div 3600, total_seconds \div 60, total_seconds % 60>>

\* TimingUtils.format_time: int(td.total_seconds()) truncates the half second
\* towards zero; divmod rounds towards minus infinity
format_time(td) ==
    LET total_seconds == IF td >= 0 THEN td \div 2 ELSE 0 - ((0 - td) \div 2)
        h == total_seconds \div 3600
        remainder == total_seconds % 3600
    IN  <<h, remainder \div 60, remainder % 60>>

\* DomainTrack(...)
DomainTrack(name, artist, start_time, end_time, track_number) ==
    [name |-> name, artist |-> artist, start_time |-> start_time,
     end_time |-> end_time, track_number |-> track_number]

\* variant: the synthetic track is named Unknown
IDTrack_Unknown(start_time, end_time) ==
    DomainTrack(<<"U", "n", "k", "n", "o", "w", "n">>, <<"I", "D">>,
                start_time, end_time, NoNumber)

\* the ID/ID placeholder the code synthesises
IDTrack(start_time, end_time) ==
    DomainTrack(<<"I", "D">>, <<"I", "D">>, start_time, end_time, NoNumber)

\* default thresholds of apply_timing_rules
intro_outro_threshold == timedelta(30)

min_gap_threshold == timedelta(60)

\* -------------------------------------------------- sorted(tracks, key=...)
\* list.sort is stable: r goes after every element whose key is <= its own
RECURSIVE InsertByStart(_, _, _)
InsertByStart(h, l, r) ==
    IF l = <<>> THEN <<r>>
    ELSE IF parse_time(h[Last(l)].start_time) <= parse_time(h[r].start_time)
         THEN Append(l, r)
         ELSE Append(InsertByStart(h, SubSeq(l, 1, Len(l) - 1), r), Last(l))

\* variant: the sort is left out
SortedByStart_Unsorted(h, l) == l

RECURSIVE SortedByStart(_, _)
SortedByStart(h, l) ==
    IF l = <<>> THEN <<>>
    ELSE InsertByStart(h, SortedByStart(h, SubSeq(l, 1, Len(l) - 1)), Last(l))

\* ------------------------------------------------------ _deduplicate_tracks
\* key = (track.artist.lower().strip(), track.name.lower().strip())
DedupKey(t) == <<Strip(Lower(t.artist)), Strip(Lower(t.name))>>

\* variant: the merged end is the later duplicate's end, not the maximum
DedupStep_LastEnd(st, r) ==
    LET h == st.heap
        hits == {d \in Range(st.tracks) : DedupKey(h[d]) = DedupKey(h[r])}
    IN  IF hits = {}
        THEN [heap |-> h, tracks |-> Append(st.tracks, r)]
        ELSE LET existing == CHOOSE d \in hits : TRUE
                 current_start == parse_time(h[r].start_time)
                 current_end == IF h[r].end_time # NoTime
                                THEN parse_time(h[r].end_time)
                                ELSE current_start
             IN  [heap |-> [h EXCEPT ![existing].end_time = format_time(current_end)],
                  tracks |-> st.tracks]

\* one iteration of the for loop: st = [heap, tracks] where tracks is deduped
DedupStep(st, r) ==
    LET h == st.heap
        key == DedupKey(h[r])
        hits == {d \in Range(st.tracks) : DedupKey(h[d]) = key}
    IN  IF hits = {}
        THEN [heap |-> h, tracks |-> Append(st.tracks, r)]
        ELSE LET existing == CHOOSE d \in hits : TRUE
                 existing_start == parse_time(h[existing].start_time)
                 existing_end == IF h[existing].end_time # NoTime
                                 THEN parse_time(h[existing].end_time)
                                 ELSE existing_start
                 current_start == parse_time(h[r].start_time)
                 current_end == IF h[r].end_time # NoTime
                                THEN parse_time(h[r].end_time)
                                ELSE current_start
                 merged_start == IF existing_start <= current_start
                                 THEN existing_start ELSE current_start
                 merged_end == IF existing_end >= current_end
                               THEN existing_end ELSE current_end
             IN  [heap |-> [h EXCEPT ![existing].start_time = format_time(merged_start),
                                     ![existing].end_time = format_time(merged_end)],
                  tracks |-> st.tracks]

RECURSIVE DedupLoop(_, _, _)
DedupLoop(st, l, k) ==
    IF k > Len(l) THEN st
    ELSE DedupLoop(DedupStep(st, l[k]), l, k + 1)

_deduplicate_tracks(h, l) ==
    IF l = <<>> THEN [heap |-> h, tracks |-> l]
    ELSE DedupLoop([heap |-> h, tracks |-> <<>>], l, 1)

\* variant: a first start of exactly the threshold is snapped as well
_add_intro_track_Inclusive(h, l, threshold) ==
    IF parse_time(h[l[1]].start_time) <= threshold
    THEN [heap |-> [h EXCEPT ![l[1]].start_time = format_time(timedelta(0))],
          tracks |-> l]
    ELSE [heap |-> Append(h, IDTrack(format_time(timedelta(0)), h[l[1]].start_time)),
          tracks |-> <<Len(h) + 1>> \o l]

\* --------------------------------------------------------- _add_intro_track
\* called with a non-empty list only (apply_timing_rules returns early)
_add_intro_track(h, l, threshold) ==
    IF parse_time(h[l[1]].start_time) < threshold
    THEN [heap |-> [h EXCEPT ![l[1]].start_time = format_time(timedelta(0))],
          tracks |-> l]
    ELSE [heap |-> Append(h, IDTrack(format_time(timedelta(0)), h[l[1]].start_time)),
          tracks |-> <<Len(h) + 1>> \o l]

\* ------------------------------------------------------------ _process_gaps
\* variants of the loop body, selected by bug:
\*   "end_only"  the short-gap branch forgets next_track.start_time
\*   "from_start" the gap ID track starts at the track's start, not its end
\*   "inclusive" a gap of exactly min_gap gets an ID track
\*   "clamp"     an overlap is clamped: next start is pulled to the end
\*   "evaluate_first" the gap of a track without end_time is measured from
\*               its start, as before the end_time was filled
GapStepVariant(st, l, k, min_gap, bug) ==
    LET h0 == st.heap
        r == l[k]
        fill == h0[r].end_time = NoTime /\ k < Len(l)
        h == IF fill THEN [h0 EXCEPT ![r].end_time = h0[l[k + 1]].start_time]
             ELSE h0
        adjusted == Append(st.tracks, r)
    IN  IF k = Len(l) THEN [heap |-> h, tracks |-> adjusted]
        ELSE LET start == parse_time(h[r].start_time)
                 end == IF bug = "evaluate_first" /\ h0[r].end_time = NoTime
                        THEN start ELSE parse_time(h[r].end_time)
                 next_track == l[k + 1]
                 next_start == parse_time(h[next_track].start_time)
                 gap == next_start - end
                 long == IF bug = "inclusive" THEN gap >= min_gap ELSE gap > min_gap
             IN  IF gap < timedelta(0)
                 THEN [heap |-> IF bug = "clamp"
                                THEN [h EXCEPT ![next_track].start_time = format_time(end)]
                                ELSE h,
                       tracks |-> adjusted]
                 ELSE IF long
                 THEN [heap |-> Append(h, IDTrack(format_time(IF bug = "from_start"
                                                               THEN start ELSE end),
                                                   format_time(next_start))),
                       tracks |-> Append(adjusted, Len(h) + 1)]
                 ELSE IF gap > timedelta(0)
                 THEN LET midpoint_str == format_time(end + gap \div 2)
                      IN  [heap |-> IF bug = "end_only"
                                    THEN [h EXCEPT ![r].end_time = midpoint_str]
                                    ELSE [h EXCEPT ![r].end_time = midpoint_str,
                                                   ![next_track].start_time = midpoint_str],
                           tracks |-> adjusted]
                 ELSE [heap |-> h, tracks |-> adjusted]

GapStep_EndOnly(st, l, k, min_gap) == GapStepVariant(st, l, k, min_gap, "end_only")

GapStep_FromStart(st, l, k, min_gap) == GapStepVariant(st, l, k, min_gap, "from_start")

GapStep_Inclusive(st, l, k, min_gap) == GapStepVariant(st, l, k, min_gap, "inclusive")

GapStep_Clamp(st, l, k, min_gap) == GapStepVariant(st, l, k, min_gap, "clamp")

GapStep_EvaluateFirst(st, l, k, min_gap) ==
    GapStepVariant(st, l, k, min_gap, "evaluate_first")

\* one iteration of the for loop over position k of tracks;
\* st = [heap, tracks] where tracks is adjusted_tracks
GapStep(st, l, k, min_gap) ==
    LET h0 == st.heap
        r == l[k]
        fill == h0[r].end_time = NoTime /\ k < Len(l)
        h == IF fill THEN [h0 EXCEPT ![r].end_time = h0[l[k + 1]].start_time]
             ELSE h0
        adjusted == Append(st.tracks, r)
    IN  IF k = Len(l) THEN [heap |-> h, tracks |-> adjusted]
        ELSE LET start == parse_time(h[r].start_time)
                 end == IF h[r].end_time # NoTime
                        THEN parse_time(h[r].end_time) ELSE start
                 next_track == l[k + 1]
                 next_start == parse_time(h[next_track].start_time)
                 gap == next_start - end
             IN  IF gap < timedelta(0)
                 THEN [heap |-> h, tracks |-> adjusted]  \* warning logged, continue
                 ELSE IF gap > min_gap
                 THEN [heap |-> Append(h, IDTrack(format_time(end),
                                                   format_time(next_start))),
                       tracks |-> Append(adjusted, Len(h) + 1)]
                 ELSE IF gap > timedelta(0)
                 THEN LET midpoint == end + gap \div 2
                          midpoint_str == format_time(midpoint)
                      IN  [heap |-> [h EXCEPT ![Last(adjusted)].end_time = midpoint_str,
                                              ![next_track].start_time = midpoint_str],
                           tracks |-> adjusted]
                 ELSE [heap |-> h, tracks |-> adjusted]

\* the track whose missing end_time iteration k of _process_gaps fills
GapFilled(h, l, k) ==
    IF h[l[k]].end_time = NoTime /\ k < Len(l) THEN {l[k]} ELSE {}

\* the logger.warning of iteration k: the records it adds to the log
GapWarnings(h, l, k) ==
    IF k = Len(l) THEN {}
    ELSE LET r == l[k]
             next_track == l[k + 1]
             end_str == IF h[r].end_time = NoTime THEN h[next_track].start_time
                        ELSE h[r].end_time
             gap == parse_time(h[next_track].start_time) - parse_time(end_str)
         IN  IF gap < timedelta(0)
             THEN {[track |-> r, next_track |-> next_track, overlap |-> 0 - gap]}
             ELSE {}

RECURSIVE GapLoop(_, _, _, _)
GapLoop(st, l, k, min_gap) ==
    IF k > Len(l) THEN st
    ELSE GapLoop(GapStep(st, l, k, min_gap), l, k + 1, min_gap)

_process_gaps(h, l, min_gap) ==
    GapLoop([heap |-> h, tracks |-> <<>>], l, 1, min_gap)

\* --------------------------------------------------------- _add_outro_track
\* total_duration=None: the absent total duration of a source without one
NoDuration == 0 - 1

\* the exceptions Python raises when total_duration is None:
\* None.total_seconds() in format_time, and timedelta >= None
AttributeError == "AttributeError"

TypeError == "TypeError"

Returned == "returned"

_add_outro_track(h, l, total, threshold) ==
    IF l = <<>> THEN [heap |-> h, tracks |-> l, outcome |-> Returned]
    ELSE IF h[Last(l)].end_time = NoTime
    THEN IF total = NoDuration
         THEN [heap |-> h, tracks |-> l, outcome |-> AttributeError]
         ELSE [heap |-> [h EXCEPT ![Last(l)].end_time = format_time(total)],
               tracks |-> l, outcome |-> Returned]
    ELSE LET last_end == parse_time(h[Last(l)].end_time)
         IN  IF total = NoDuration
             THEN [heap |-> h, tracks |-> l, outcome |-> TypeError]
             ELSE IF last_end >= total
             THEN [heap |-> h, tracks |-> l, outcome |-> Returned]
             ELSE IF last_end + threshold >= total
             THEN [heap |-> [h EXCEPT ![Last(l)].end_time = format_time(total)],
                   tracks |-> l, outcome |-> Returned]
             ELSE [heap |-> Append(h, IDTrack(format_time(last_end),
                                               format_time(total))),
                   tracks |-> Append(l, Len(h) + 1), outcome |-> Returned]

\* ------------------------------------------- tail of apply_timing_rules
\* for i, track in enumerate(tracks, start=1): track.track_number = i
RECURSIVE RenumberLoop(_, _, _)
RenumberLoop(h, l, k) ==
    IF k > Len(l) THEN h
    ELSE RenumberLoop([h EXCEPT ![l[k]].track_number = k], l, k + 1)

\* variant: enumerate without start=1
renumber_FromZero(h, l) ==
    [heap |-> [r \in DOMAIN h |->
                 IF \E k \in DOMAIN l : l[k] = r
                 THEN [h[r] EXCEPT !.track_number =
                          (CHOOSE k \in DOMAIN l : l[k] = r) - 1]
                 ELSE h[r]],
     tracks |-> l]

renumber(h, l) == [heap |-> RenumberLoop(h, l, 1), tracks |-> l]

\* format_time(parse_time(s)) for every truthy boundary
NormaliseTime(s) == IF s # NoTime THEN format_time(parse_time(s)) ELSE s

RECURSIVE NormaliseLoop(_, _, _)
NormaliseLoop(h, l, k) ==
    IF k > Len(l) THEN h
    ELSE NormaliseLoop(
             [h EXCEPT ![l[k]].start_time = NormaliseTime(h[l[k]].start_time),
                       ![l[k]].end_time = NormaliseTime(h[l[k]].end_time)],
             l, k + 1)

normalise(h, l) == [heap |-> NormaliseLoop(h, l, 1), tracks |-> l]

\* ------------------------------------------------------ apply_timing_rules
\* the whole function, composed of the steps above
apply_timing_rules(h, l, total) ==
    IF l = <<>> THEN [heap |-> h, tracks |-> l]
    ELSE LET s1 == _deduplicate_tracks(h, SortedByStart(h, l))
             s2 == _add_intro_track(s1.heap, s1.tracks, intro_outro_threshold)
             s3 == _process_gaps(s2.heap, s2.tracks, min_gap_threshold)
             s4 == _add_outro_track(s3.heap, s3.tracks, total, intro_outro_threshold)
             s5 == renumber(s4.heap, s4.tracks)
         IN  normalise(s5.heap, s5.tracks)

\* the values a list of references denotes
Deref(h, l) == [k \in DOMAIN l |-> h[l[k]]]

\* ------------------------------------------------------------ time strings
\* The functions above work on the integer components of a time string.
\* Below, a time string is text, and the conversions between text and
\* components are str.split, int() and the format specification 02d.
Digit == <<"0", "1", "2", "3", "4", "5", "6", "7", "8", "9">>

IsDigit(c) == \E d \in DOMAIN Digit : Digit[d] = c

DigitValue(c) == (CHOOSE d \in DOMAIN Digit : Digit[d] = c) - 1

\* position of the first occurrence of the character sep in s, 0 if none
Find(s, sep) ==
    IF \E k \in DOMAIN s : s[k] = sep
    THEN CHOOSE k \in DOMAIN s : s[k] = sep /\ \A j \in 1..(k - 1) : s[j] # sep
    ELSE 0

\* str.split(sep) for a one-character separator
RECURSIVE split(_, _)
split(s, sep) ==
    LET k == Find(s, sep)
    IN  IF k = 0 THEN <<s>>
        ELSE <<SubSeq(s, 1, k - 1)>> \o split(SubSeq(s, k + 1, Len(s)), sep)

\* the digits of an int() argument: blanks stripped, one sign dropped
IntBody(x) ==
    LET s == Strip(x)
    IN  IF s # <<>> /\ s[1] \in {"-", "+"} THEN Tail(s) ELSE s

\* int(x) returns a value (otherwise it raises ValueError)
IsIntLiteral(x) ==
    /\ IntBody(x) # <<>>
    /\ \A k \in DOMAIN IntBody(x) : IsDigit(IntBody(x)[k])

RECURSIVE DigitsValue(_)
DigitsValue(b) ==
    IF b = <<>> THEN 0
    ELSE 10 * DigitsValue(SubSeq(b, 1, Len(b) - 1)) + DigitValue(Last(b))

\* int(x) for an argument that int() accepts
int(x) ==
    IF Strip(x)[1] = "-" THEN 0 - DigitsValue(IntBody(x))
    ELSE DigitsValue(IntBody(x))

\* TimingUtils.parse_time on text: empty check, t.split(".")[0],
\* [int(x) for x in t.split(":")], then the dispatch on the number of parts
parse_time_str(t) ==
    IF t = <<>> THEN ValueError
    ELSE LET parts == split(split(t, ".")[1], ":")
         IN  IF \E k \in DOMAIN parts : ~IsIntLiteral(parts[k])
             THEN ValueError
             ELSE parse_time([k \in DOMAIN parts |-> int(parts[k])])

\* str(n) for n >= 0
RECURSIVE Decimal(_)
Decimal(n) ==
    IF n < 10 THEN <<Digit[n + 1]>>
    ELSE Decimal(n \div 10) \o <<Digit[(n % 10) + 1]>>

\* variant: f"{n}", no zero padding
Format02d_Unpadded(n) ==
    IF n < 0 THEN <<"-">> \o Decimal(0 - n) ELSE Decimal(n)

\* f"{n:02d}"
Format02d(n) ==
    IF n < 0 THEN <<"-">> \o Decimal(0 - n)
    ELSE IF n < 10 THEN <<"0">> \o Decimal(n)
    ELSE Decimal(n)

\* TimingUtils.format_time as text: f"{hours:02d}:{minutes:02d}:{seconds:02d}"
format_time_str(td) ==
    LET c == format_time(td)
    IN  Format02d(c[1]) \o <<":">> \o Format02d(c[2]) \o <<":">> \o Format02d(c[3])

\* Parser._time_to_seconds raises ValueError (no fractional suffix is cut
\* off here; int() raises on a bad part, the else branch on a bad count)
_time_to_seconds_raises(time_str) ==
    LET parts == split(time_str, ":")
    IN  \/ Len(parts) \notin {2, 3}
        \/ \E k \in DOMAIN parts : ~IsIntLiteral(parts[k])

\* Parser._time_to_seconds when it returns
_time_to_seconds(time_str) ==
    LET parts == split(time_str, ":")
    IN  IF Len(parts) = 2 THEN int(parts[1]) * 60 + int(parts[2])
        ELSE int(parts[1]) * 3600 + int(parts[2]) * 60 + int(parts[3])

\* Parser._calculate_duration_between_times: except (ValueError,
\* AttributeError): return 0
_calculate_duration_between_times(start_time, end_time) ==
    IF _time_to_seconds_raises(start_time) \/ _time_to_seconds_raises(end_time)
    THEN 0
    ELSE _time_to_seconds(end_time) - _time_to_seconds(start_time)

\* TracklistManager._duration_to_ms: 0.0 for a wrong number of parts and
\* for except (ValueError, AttributeError)
_duration_to_ms(duration) ==
    LET parts == split(duration, ":")
    IN  IF Len(parts) \notin {2, 3} THEN 0
        ELSE IF \E k \in DOMAIN parts : ~IsIntLiteral(parts[k]) THEN 0
        ELSE IF Len(parts) = 2
        THEN (int(parts[1]) * 60 + int(parts[2])) * 1000
        ELSE (int(parts[1]) * 3600 + int(parts[2]) * 60 + int(parts[3])) * 1000

\* values passed to and returned by the duration functions
StrValue(v) == [kind |-> "str", val |-> v]

TimedeltaValue(v) == [kind |-> "timedelta", val |-> v]

NumberValue(v) == [kind |-> "number", val |-> v]

Raised(e) == [kind |-> "raise", val |-> e]

\* a call of parse_time on text, as a value
ParseTimeCall(t) ==
    IF parse_time_str(t) = ValueError THEN Raised("ValueError")
    ELSE TimedeltaValue(parse_time_str(t))

\* if track.start_time: track.start_time = format_time(parse_time(...))
NormaliseCall(t) ==
    IF t = <<>> THEN StrValue(t)
    ELSE IF parse_time_str(t) = ValueError THEN Raised("ValueError")
    ELSE StrValue(format_time_str(parse_time_str(t)))

\* ----------------------------------------------------------- text cleaning
\* whats_this_id/core/parsers/text_cleaners.py and the copies of its
\* functions in class Parser.  Text is a sequence of characters without line
\* breaks, so "$" is the end of the text and ".*$" runs up to it.
IsUpper(c) ==
    c \in {"A", "B", "C", "D", "E", "F", "G", "H", "I", "J", "K", "L", "M",
           "N", "O", "P", "Q", "R", "S", "T", "U", "V", "W", "X", "Y", "Z"}

IsLower(c) ==
    c \in {"a", "b", "c", "d", "e", "f", "g", "h", "i", "j", "k", "l", "m",
           "n", "o", "p", "q", "r", "s", "t", "u", "v", "w", "x", "y", "z"}

\* \s
IsSpace(c) == c = " "

\* [A-Z\s]
IsUpperOrSpace(c) == IsUpper(c) \/ IsSpace(c)

\* [a-zA-Z0-9()\s]
IsUserInfoChar(c) ==
    IsLower(c) \/ IsUpper(c) \/ IsDigit(c) \/ IsSpace(c) \/ c \in {"(", ")"}

\* length of the longest run of characters of class P in s from position k
Run(s, k, P(_)) ==
    CHOOSE n \in 0..(Len(s) - k + 1) :
        /\ \A j \in k..(k + n - 1) : P(s[j])
        /\ (k + n > Len(s) \/ ~P(s[k + n]))

\* sub occurs in s at position k
StartsAt(s, k, sub) ==
    /\ k >= 1
    /\ k + Len(sub) - 1 <= Len(s)
    /\ SubSeq(s, k, k + Len(sub) - 1) = sub

\* sub in s
Contains(s, sub) == \E k \in DOMAIN s : StartsAt(s, k, sub)

\* s.find(sub) + 1
FindSub(s, sub) ==
    IF Contains(s, sub)
    THEN CHOOSE k \in DOMAIN s :
             StartsAt(s, k, sub) /\ \A j \in 1..(k - 1) : ~StartsAt(s, j, sub)
    ELSE 0

\* s.split(sep, 1) for a separator that occurs in s
SplitOnce(s, sep) ==
    << SubSeq(s, 1, FindSub(s, sep) - 1),
       SubSeq(s, FindSub(s, sep) + Len(sep), Len(s)) >>

\* s.count(c)
Count(s, c) == Cardinality({k \in DOMAIN s : s[k] = c})

\* s[n:]
Drop(s, n) == SubSeq(s, n + 1, Len(s))

\* position after the match of (?::\d+)? at position c of s
OptionalSeconds(s, c) ==
    IF c <= Len(s) /\ s[c] = ":" /\ Run(s, c + 1, IsDigit) > 0
    THEN c + 1 + Run(s, c + 1, IsDigit)
    ELSE c

\* position after the match of :\d+(?::\d+)? at position c of s, 0 if none
MinutesSeconds(s, c) ==
    IF c <= Len(s) /\ s[c] = ":" /\ Run(s, c + 1, IsDigit) > 0
    THEN OptionalSeconds(s, c + 1 + Run(s, c + 1, IsDigit))
    ELSE 0

\* length of the match of \d+:\d+(?::\d+)? at position k of s whose first
\* run of digits has length d, 0 if none
TimestampAfter(s, k, d) ==
    IF d = 0 \/ MinutesSeconds(s, k + d) = 0 THEN 0
    ELSE MinutesSeconds(s, k + d) - k

\* length of the match of \d+:\d+(?::\d+)? at position k of s, 0 if none
TimestampLen(s, k) == TimestampAfter(s, k, Run(s, k, IsDigit))

\* length of a match of length n at the start of s extended by \s+, 0 if
\* there is no match
ThenBlanks(s, n) ==
    IF n = 0 \/ Run(s, n + 1, IsSpace) = 0 THEN 0
    ELSE n + Run(s, n + 1, IsSpace)

\* length of a match of length n at the start of s extended by \s*
ThenAnyBlanks(s, n) == IF n = 0 THEN 0 ELSE n + Run(s, n + 1, IsSpace)

\* length of a match of length n at the start of s extended by
\* \d+:\d+(?::\d+)?, 0 if there is no match
ThenTimestamp(s, n) ==
    IF n = 0 \/ TimestampLen(s, n + 1) = 0 THEN 0
    ELSE n + TimestampLen(s, n + 1)

\* length of the match of ^\d+\s+ ("track_number")
TrackNumberLen(s) == ThenBlanks(s, Run(s, 1, IsDigit))

\* length of the match of ^\d+\s+\d+:\d+(?::\d+)?\s+ ("track_number_time")
TrackNumberTimeLen(s) == ThenBlanks(s, ThenTimestamp(s, TrackNumberLen(s)))

\* length of the match of ^\d+:\d+(?::\d+)?\s* ("timestamp_prefix")
TimestampPrefixLen(s) == ThenAnyBlanks(s, TimestampLen(s, 1))

\* pattern.sub("", s) for each of the three patterns of clean_artist_name
SubTrackNumberTime(s) == Drop(s, TrackNumberTimeLen(s))

SubTrackNumber(s) == Drop(s, TrackNumberLen(s))

SubTimestampPrefix(s) == Drop(s, TimestampPrefixLen(s))

\* TextCleaner.clean_artist_name (= Parser._clean_artist_name)
clean_artist_name(artist_part) ==
    Strip(SubTimestampPrefix(SubTrackNumber(SubTrackNumberTime(artist_part))))

\* \s+[A-Z\s]{4,}\s+\d+.*$ ("label_and_numbers") matches at position p
LabelAt(s, p) ==
    /\ IsSpace(s[p])
    /\ \E q \in (p + 5)..(Len(s) - 1) :
           /\ \A j \in p..q : IsUpperOrSpace(s[j])
           /\ IsSpace(s[q])
           /\ IsDigit(s[q + 1])

\* [A-Z]+\s+\[.*?\] matches at position u of s, after blanks from p
EditInfoFrom(s, p, u) ==
    /\ u > p
    /\ Run(s, u, IsUpper) > 0
    /\ Run(s, u + Run(s, u, IsUpper), IsSpace) > 0
    /\ \E o \in (u + 2)..Len(s) :
           /\ o = u + Run(s, u, IsUpper)
                    + Run(s, u + Run(s, u, IsUpper), IsSpace)
           /\ s[o] = "["
           /\ \E j \in (o + 1)..Len(s) : s[j] = "]"

\* \s+[A-Z]+\s+\[.*?\].*$ ("edit_info") matches at position p
EditInfoAt(s, p) == EditInfoFrom(s, p, p + Run(s, p, IsSpace))

\* \s+[a-zA-Z0-9()\s]+\s+Save matches at position g of s, after blanks and
\* digits from p
UserInfoFrom(s, p, g) ==
    /\ g > p
    /\ \E r \in (g + 3)..Len(s) :
           /\ StartsAt(s, r, <<"S", "a", "v", "e">>)
           /\ \A j \in g..(r - 1) : IsUserInfoChar(s[j])
           /\ IsSpace(s[g])
           /\ IsSpace(s[r - 1])

\* position after \s+\d+ at position p of s, p if there is no match
DigitsFrom(s, p, a) == IF Run(s, a, IsDigit) > 0 THEN a + Run(s, a, IsDigit) ELSE p

\* \s+\d+\s+[a-zA-Z0-9()\s]+\s+Save.*$ ("user_info") matches at position p
UserInfoAt(s, p) ==
    /\ IsSpace(s[p])
    /\ UserInfoFrom(s, p, DigitsFrom(s, p, p + Run(s, p, IsSpace)))

\* pattern.sub("", s) for a pattern that ends in ".*$": s up to the first
\* position where the pattern matches
CutAt(s, At(_, _)) ==
    IF \E p \in DOMAIN s : At(s, p)
    THEN SubSeq(s, 1, (CHOOSE p \in DOMAIN s :
                           At(s, p) /\ \A j \in 1..(p - 1) : ~At(s, j)) - 1)
    ELSE s

\* position of the last character of s that is not a blank, 0 if none
LastNonSpace(s) ==
    IF \E k \in DOMAIN s : ~IsSpace(s[k])
    THEN CHOOSE k \in DOMAIN s :
             ~IsSpace(s[k]) /\ \A j \in (k + 1)..Len(s) : IsSpace(s[j])
    ELSE 0

\* \s*\[.*?\]\s*$ ("brackets") and \s*\(.*?\)\s*$ ("parentheses") match at
\* position p: blanks, the opening character, and the closing character as
\* the last character before trailing blanks
GroupAt(s, p, open, close) ==
    LET o == p + Run(s, p, IsSpace)
    IN  /\ o < LastNonSpace(s)
        /\ s[o] = open
        /\ s[LastNonSpace(s)] = close

BracketsAt(s, p) == GroupAt(s, p, "[", "]")

ParenthesesAt(s, p) == GroupAt(s, p, "(", ")")

\* TextCleaner.clean_track_name: the patterns label_and_numbers, edit_info,
\* user_info, then strip()
clean_track_name(track_part) ==
    Strip(CutAt(CutAt(CutAt(track_part, LabelAt), EditInfoAt), UserInfoAt))

\* Parser._clean_track_name: the patterns label_and_numbers, brackets,
\* parentheses, edit_info, user_info, then strip()
_clean_track_name(track_part) ==
    Strip(CutAt(CutAt(CutAt(CutAt(CutAt(track_part, LabelAt), BracketsAt),
                            ParenthesesAt), EditInfoAt), UserInfoAt))

SKIP_WORDS ==
    { <<"c", "o", "p", "y", "r", "i", "g", "h", "t">>, <<"r", "i", "g", "h", "t", "s">>, <<"r", "e", "s", "e", "r", "v", "e", "d">>, <<"t", "r", "a", "c", "k", "l", "i", "s", "t">>, <<"p", "l", "a", "y", "l", "i", "s", "t">> }

\* TextCleaner.should_skip_text
should_skip_text(text) ==
    \E skip_word \in SKIP_WORDS : Contains(Lower(text), skip_word)

\* -------------------------------------------------------- track extraction
\* whats_this_id/core/parsers/track_extractors.py (class TrackExtractors,
\* which cleans with TextCleaner) and the same methods of class Parser
\* (parser.py, which cleans with Parser._clean_track_name).  cls names the
\* class whose methods run.
\*
\* An element of the parsed document is a record: its tag, its class
\* attribute, isid (data-isid == "true"), its children (tag, role and text
\* of each; the role is "tracknumber_value" for a span whose id contains it,
\* "cue" for a div whose class contains it), and the texts of the suggestion
\* elements that the search of _find_suggestion_for_id_track visits.
\*
\* a candidate that is None
NoTrack ==
    [name |-> <<>>, artist |-> <<>>, start_time |-> NoTime,
     end_time |-> NoTime, track_number |-> 0 - 1]

\* no suggestion found
NoSuggestion == <<>>

CleanTrackName(cls, track_part) ==
    IF cls = "Parser" THEN _clean_track_name(track_part)
    ELSE clean_track_name(track_part)

\* element.get_text()
get_text(element) ==
    LET RECURSIVE Concat(_)
        Concat(k) ==
            IF k > Len(element.children) THEN <<>>
            ELSE element.children[k].text \o Concat(k + 1)
    IN  Concat(1)

\* element.get_text(strip=True)
get_text_strip(element) ==
    LET RECURSIVE Concat(_)
        Concat(k) ==
            IF k > Len(element.children) THEN <<>>
            ELSE Strip(element.children[k].text) \o Concat(k + 1)
    IN  Concat(1)

\* _create_domain_track
_create_domain_track(cls, track, artist, track_number, start_time) ==
    DomainTrack(CleanTrackName(cls, track), clean_artist_name(artist),
                start_time, NoTime, track_number)

\* the track that _parse_artist_track_text makes of the two sides of a
\* separator: each side is stripped and cleaned, then cleaned again by
\* _create_domain_track
ParsedTrack(cls, artist_part, track_part) ==
    _create_domain_track(cls, CleanTrackName(cls, Strip(track_part)),
                         clean_artist_name(Strip(artist_part)), NoNumber, NoTime)

\* _parse_artist_track_text
_parse_artist_track_text(cls, text) ==
    IF Contains(text, <<" ", "-", " ">>)
    THEN ParsedTrack(cls, SplitOnce(text, <<" ", "-", " ">>)[1],
                     SplitOnce(text, <<" ", "-", " ">>)[2])
    ELSE IF Contains(text, <<" ", "b", "y", " ">>)
    THEN ParsedTrack(cls, SplitOnce(text, <<" ", "b", "y", " ">>)[2],
                     SplitOnce(text, <<" ", "b", "y", " ">>)[1])
    ELSE NoTrack

\* _extract_track_info
_extract_track_info(cls, element) ==
    IF Len(get_text_strip(element)) < 5 THEN NoTrack
    ELSE _parse_artist_track_text(cls, get_text_strip(element))

\* _extract_track_info_from_text
_extract_track_info_from_text(cls, text) ==
    IF Len(text) < 5 THEN NoTrack
    ELSE IF should_skip_text(text) THEN NoTrack
    ELSE _parse_artist_track_text(cls, text)

\* _is_id_track
_is_id_track(element, text) ==
    \/ element.isid
    \/ Contains(Lower(text), <<"i", "d", " ", "-", " ", "i", "d">>)
    \/ Contains(Lower(text), <<" ", "-", " ", "i", "d">>)

\* the suggestion made of the two sides of " - "
Suggestion(artist_part, track_part) ==
    << Strip(artist_part), Strip(CutAt(Strip(track_part), BracketsAt)) >>

\* _extract_suggestion_from_element, NoSuggestion for None
_extract_suggestion_from_element(suggestion_text) ==
    IF ~Contains(Strip(suggestion_text), <<" ", "-", " ">>) THEN NoSuggestion
    ELSE Suggestion(SplitOnce(Strip(suggestion_text), <<" ", "-", " ">>)[1],
                    SplitOnce(Strip(suggestion_text), <<" ", "-", " ">>)[2])

\* the least element of a set of positions
First(ks) == CHOOSE k \in ks : \A j \in ks : k <= j

\* the suggestion of the first element of found, NoSuggestion if it is empty
FirstSuggestion(element, found) ==
    IF found = {} THEN NoSuggestion
    ELSE _extract_suggestion_from_element(element.suggestions[First(found)])

\* _find_suggestion_for_id_track: the first visited suggestion element that
\* yields a suggestion
_find_suggestion_for_id_track(element) ==
    FirstSuggestion(element,
        {k \in DOMAIN element.suggestions :
            _extract_suggestion_from_element(element.suggestions[k])
                # NoSuggestion})

\* the track that _handle_id_track makes of the suggestion it found
SuggestedOrID(cls, suggestion, track_number, start_time) ==
    IF suggestion # NoSuggestion
    THEN _create_domain_track(cls, suggestion[2], suggestion[1],
                              track_number, start_time)
    ELSE _create_domain_track(cls, <<"I", "D">>, <<"I", "D">>, track_number, start_time)

\* _handle_id_track
_handle_id_track(cls, element, soup, track_number, start_time) ==
    SuggestedOrID(cls,
                  IF soup THEN _find_suggestion_for_id_track(element)
                  ELSE NoSuggestion,
                  track_number, start_time)

\* the skip condition of the span loop of _extract_structured_track_info
Problematic(track) ==
    \/ Contains(track, <<"[", "T", "h", "e", " ", "G", "o", "d", "s", " ", "P", "l", "a", "n", "e", "t", "]">>)
    \/ Len(track) > 100
    \/ Count(track, "[") > 1
    \/ Count(track, "(") > 1

\* the artist and track that the span loop and the full-text fallback of
\* _extract_structured_track_info take from a text
SplitArtist(text) == clean_artist_name(Strip(SplitOnce(text, <<" ", "-", " ">>)[1]))

SplitTrack(cls, text) == CleanTrackName(cls, Strip(SplitOnce(text, <<" ", "-", " ">>)[2]))

\* the test of the span loop on the stripped text of a span and the artist
\* and track split from it
SpanQualifies(text, artist, track) ==
    /\ Len(text) > 5
    /\ Len(text) < 200
    /\ ~Problematic(track)
    /\ Len(artist) > 1
    /\ Len(track) > 1

\* the span loop returns at this child
IsTrackSpan(cls, child) ==
    /\ child.tag = "span"
    /\ Contains(Strip(child.text), <<" ", "-", " ">>)
    /\ SpanQualifies(Strip(child.text), SplitArtist(Strip(child.text)),
                     SplitTrack(cls, Strip(child.text)))

\* the full-text fallback on a text with " - " and the artist and track
\* split from it
FallbackTrack(cls, artist, track, track_number, start_time) ==
    IF Len(track) > 100 \/ Count(track, "[") > 1 \/ Count(track, "(") > 1
    THEN NoTrack
    ELSE IF Len(artist) > 1 /\ Len(track) > 1
    THEN _create_domain_track(cls, track, artist, track_number, start_time)
    ELSE NoTrack

\* what _extract_structured_track_info returns given the children at which
\* the span loop would return
StructuredTrack(cls, element, spans, track_number, start_time) ==
    IF spans # {}
    THEN _create_domain_track(
             cls, SplitTrack(cls, Strip(element.children[First(spans)].text)),
             SplitArtist(Strip(element.children[First(spans)].text)),
             track_number, start_time)
    ELSE IF ~Contains(get_text(element), <<" ", "-", " ">>) THEN NoTrack
    ELSE FallbackTrack(cls, SplitArtist(get_text(element)),
                       SplitTrack(cls, get_text(element)),
                       track_number, start_time)

\* _extract_structured_track_info
_extract_structured_track_info(cls, element, track_number, start_time) ==
    StructuredTrack(cls, element,
                    {k \in DOMAIN element.children :
                        IsTrackSpan(cls, element.children[k])},
                    track_number, start_time)

\* the first child of the element with the given tag and role, 0 if none
FindChild(element, tag, role) ==
    IF \E k \in DOMAIN element.children :
           element.children[k].tag = tag /\ element.children[k].role = role
    THEN First({k \in DOMAIN element.children :
                  element.children[k].tag = tag /\ element.children[k].role = role})
    ELSE 0

\* the text from position k of time_text that matches \d+:\d+(?::\d+)?
TimestampAt(time_text, k) ==
    SubSeq(time_text, k, k + TimestampLen(time_text, k) - 1)

\* re.search(r"(\d+:\d+(?::\d+)?)", time_text).group(1), NoTime if no match
SearchTimestamp(time_text) ==
    IF \E k \in DOMAIN time_text : TimestampLen(time_text, k) > 0
    THEN TimestampAt(time_text,
                     First({k \in DOMAIN time_text : TimestampLen(time_text, k) > 0}))
    ELSE NoTime

\* int(number_elem.get_text(strip=True)) of the child at position n, None if
\* there is no such child or int() raises ValueError
TrackNumberOf(element, n) ==
    IF n # 0 /\ IsIntLiteral(element.children[n].text)
    THEN int(element.children[n].text)
    ELSE NoNumber

\* the timestamp found in the text of the child at position c, None if there
\* is no such child
StartTimeOf(element, c) ==
    IF c # 0 THEN SearchTimestamp(Strip(element.children[c].text))
    ELSE NoTime

\* the branch of _extract_track_info_from_tlp_element on _is_id_track
IdOrStructured(cls, element, soup, track_number, start_time) ==
    IF _is_id_track(element, get_text(element))
    THEN _handle_id_track(cls, element, soup, track_number, start_time)
    ELSE _extract_structured_track_info(cls, element, track_number, start_time)

\* _extract_track_info_from_tlp_element
_extract_track_info_from_tlp_element(cls, element, soup) ==
    IdOrStructured(cls, element, soup,
                   TrackNumberOf(element, FindChild(element, "span", "tracknumber_value")),
                   StartTimeOf(element, FindChild(element, "div", "cue")))

\* soup.find_all(tags, class_=pattern) is SelectSeq of the document by one
\* of the tests below.
\* div with a class matching tlpItem (re.I)
IsTlpItem(element) ==
    element.tag = "div" /\ Contains(Lower(element.class), <<"t", "l", "p", "i", "t", "e", "m">>)

\* div, li or tr with a class matching track|song|item (re.I)
IsTrackElement(element) ==
    /\ element.tag \in {"div", "li", "tr"}
    /\ \/ Contains(Lower(element.class), <<"t", "r", "a", "c", "k">>)
       \/ Contains(Lower(element.class), <<"s", "o", "n", "g">>)
       \/ Contains(Lower(element.class), <<"i", "t", "e", "m">>)

\* div with a class matching tlp_\d+ (re.I)
IsTlpId(element) ==
    /\ element.tag = "div"
    /\ \E k \in DOMAIN element.class :
           /\ StartsAt(Lower(element.class), k, <<"t", "l", "p", "_">>)
           /\ k + 4 <= Len(element.class)
           /\ IsDigit(element.class[k + 4])

\* the lines of soup.get_text() that extract_from_text_patterns keeps; every
\* element is one line of the document
IsTrackLine(element) ==
    /\ Contains(Strip(get_text(element)), <<" ", "-", " ">>)
    /\ 10 < Len(Strip(get_text(element)))
    /\ Len(Strip(get_text(element))) < 200

\* extract_from_tlp_items
extract_from_tlp_items(cls, document) ==
    LET elements == SelectSeq(document, IsTlpItem)
    IN  [k \in DOMAIN elements |->
            _extract_track_info_from_tlp_element(cls, elements[k], TRUE)]

\* extract_from_track_elements
extract_from_track_elements(cls, document) ==
    LET elements == SelectSeq(document, IsTrackElement)
    IN  [k \in DOMAIN elements |-> _extract_track_info(cls, elements[k])]

\* extract_from_tlp_ids
extract_from_tlp_ids(cls, document) ==
    LET elements == SelectSeq(document, IsTlpId)
    IN  [k \in DOMAIN elements |->
            _extract_track_info_from_tlp_element(cls, elements[k], FALSE)]

\* extract_from_text_patterns
extract_from_text_patterns(cls, document) ==
    LET elements == SelectSeq(document, IsTrackLine)
    IN  [k \in DOMAIN elements |->
            _extract_track_info_from_text(cls, Strip(get_text(elements[k])))]

\* extraction_patterns of _extract_tracks_from_html, in order
extraction_patterns ==
    <<"tlpItem elements", "track elements", "tlp ID elements", "text patterns">>

\* extract_func() of the pattern at position k
extract_func(cls, k, document) ==
    CASE k = 1 -> extract_from_tlp_items(cls, document)
      [] k = 2 -> extract_from_track_elements(cls, document)
      [] k = 3 -> extract_from_tlp_ids(cls, document)
      [] k = 4 -> extract_from_text_patterns(cls, document)

\* key of tracks.sort for a track without track_number
UnnumberedKey == 999

\* x.track_number if x.track_number is not None else 999
NumberKey(t) == IF t.track_number = NoNumber THEN UnnumberedKey ELSE t.track_number

\* tracks.sort(key=...): stable insertion by the key
RECURSIVE SortedByNumber(_)
SortedByNumber(l) ==
    IF l = <<>> THEN l
    ELSE LET sorted == SortedByNumber(SubSeq(l, 1, Len(l) - 1))
             t == Last(l)
             n == Cardinality({k \in DOMAIN sorted :
                                 NumberKey(sorted[k]) <= NumberKey(t)})
         IN  SubSeq(sorted, 1, n) \o <<t>> \o SubSeq(sorted, n + 1, Len(sorted))

\* Parser._apply_timing_rules: first start "00:00", every end the next
\* start, the last end total_duration, or None if that is falsy
_apply_timing_rules(l, total) ==
    IF l = <<>> THEN l
    ELSE LET started == [l EXCEPT ![1].start_time = <<"0", "0", ":", "0", "0">>]
         IN  [k \in DOMAIN l |->
                 [started[k] EXCEPT !.end_time =
                     IF k < Len(l) THEN started[k + 1].start_time
                     ELSE IF total # NoTime THEN total
                     ELSE NoTime]]

\* variant: None entries are kept
valid_tracks_KeepNone(pattern_tracks) == pattern_tracks

\* [track for track in pattern_tracks if track is not None]
valid_tracks(pattern_tracks) ==
    LET RECURSIVE Keep(_)
        Keep(k) ==
            IF k > Len(pattern_tracks) THEN <<>>
            ELSE IF pattern_tracks[k] # NoTrack
            THEN <<pattern_tracks[k]>> \o Keep(k + 1)
            ELSE Keep(k + 1)
    IN  Keep(1)

\* number of tracks from which the confidence is 1.0
FullConfidenceTracks == 10

\* the confidence before parse has computed it
NotComputed == 0 - 1

\* variant: the quotient without the cap
confidence_score_Uncapped(n) == n

\* min(1.0, len(tracks) / 10.0) if tracks else 0.0, in tenths
confidence_score(n) ==
    IF n # 0
    THEN (IF n <= FullConfidenceTracks THEN n ELSE FullConfidenceTracks)
    ELSE 0

\* tracks.extend(valid_tracks) of the loop of _extract_tracks_from_html
LoopBody(l, pattern_tracks) == l \o valid_tracks(pattern_tracks)

\* ----------------------------------------------------------------- manager
\* whats_this_id/core/manager.py, class TracklistManager, and SearchRun of
\* whats_this_id/core/common.py.  A track list is the number of its tracks.
\*
\* DomainTracklist.tracks is None
NoTracks == 0 - 1

\* total_duration_ms: Optional[float] = None
NoMs == 0 - 1

\* SearchRun(query=query) whose final_tracklist is DomainTracklist(), with
\* the tracks that DomainTracklist() has by default
NewRun(default_tracks) ==
    [steps |-> <<>>, final_tracklist |-> default_tracks,
     total_duration_ms |-> NoMs, success |-> FALSE]

\* log_step(run, step_name, source, status, ...)
log_step(r, step_name, status) ==
    [r EXCEPT !.steps = Append(@, [step_name |-> step_name, status |-> status])]

\* not query or not query.strip()
EmptyQuery(q) == Strip(q) = <<>>

\* self.min_confidence_threshold, in tenths
min_confidence_threshold == 5

\* variant: any tracklist that is not None counts as a success
run_success_NotNone(final_tracks) == final_tracks # NoTracks

\* the value run gives run.success from run.final_tracklist
run_success(final_tracks) ==
    IF final_tracks # NoTracks THEN final_tracks > 0 ELSE FALSE

\* the sum of the track counts of the parsed tracklists
RECURSIVE TotalTracks(_)
TotalTracks(parsed) ==
    IF parsed = <<>> THEN 0 ELSE Head(parsed) + TotalTracks(Tail(parsed))

\* ------------------------------------------------------------- execute_async
\* whats_this_id/core/common.py, class BaseOperation.
\*
\* no ExecutionResult yet
NoResult == [success |-> FALSE, data |-> <<>>, attempt |-> 0]

\* ExecutionResult(success=..., data=..., metadata={"attempt": ...})
ExecutionResult(success, data, attempt_number) ==
    [success |-> success, data |-> data, attempt |-> attempt_number]

\* variant: retry_delay is waited after every failed attempt
ShouldRetry_Always(attempt_index, retries) == attempt_index < retries

\* if attempt < self.max_retries - 1: sleep and continue
ShouldRetry(attempt_index, retries) == attempt_index < retries - 1

\* ------------------------------------------------------------------ inputs
\* (name, artist, track_number) of three candidates with distinct keys; two
\* carry the same number
Idents ==
    { [name |-> <<"T", "1">>, artist |-> <<"A">>, track_number |-> 2],
      [name |-> <<"T", "2">>, artist |-> <<"B">>, track_number |-> 2],
      [name |-> <<"T", "3">>, artist |-> <<"C">>, track_number |-> 1] }

\* a re-cased, re-spaced, unnumbered duplicate of the first candidate
Recased ==
    [name |-> <<"t", "1", " ">>, artist |-> <<" ", "a">>, track_number |-> NoNumber]

\* (start_time, end_time) of the candidates, in seconds:
\* [15,45] [30,-] [60,90] [150,240] and the inverted [120,90]
Spans ==
    { <<<<0, 15>>, <<0, 0, 45>>>>,
      <<<<0, 0, 30>>, NoTime>>,
      <<<<1, 0>>, <<0, 1, 30>>>>,
      <<<<0, 2, 30>>, <<4, 0>>>>,
      <<<<2, 0>>, <<0, 1, 30>>>> }

\* the spans the re-cased duplicate is seen at: [15,45] and [30,-]
RecasedSpans ==
    { <<<<0, 15>>, <<0, 0, 45>>>>,
      <<<<0, 0, 30>>, NoTime>> }

Catalogue ==
    { DomainTrack(id.name, id.artist, sp[1], sp[2], id.track_number) :
        id \in Idents, sp \in Spans }
    \cup
    { DomainTrack(Recased.name, Recased.artist, sp[1], sp[2], Recased.track_number) :
        sp \in RecasedSpans }

\* total_duration arguments: 03:30 (before the latest end) and 04:30
Totals == {timedelta(210), timedelta(270)}

InputLists == UNION {[1..n -> Catalogue] : n \in 0..MaxTracks}

\* total_duration before _add_outro_track, its only reader, has read it
Unread == 0 - 2

\* parts of the time strings given to the duration functions: empty, zero
\* padded, single digit, 60 or more, not a number, signed
TimeParts ==
    { <<>>, <<"0", "0">>, <<"5", "9">>, <<"1">>, <<"7", "5">>, <<"x">>,
      <<"-", "1">> }

\* fractional-second suffixes
Suffixes == { <<>>, <<".", "9">> }

\* ":".join(parts)
RECURSIVE JoinParts(_)
JoinParts(parts) ==
    IF Len(parts) = 1 THEN parts[1]
    ELSE parts[1] \o <<":">> \o JoinParts(Tail(parts))

TimeStrings ==
    { JoinParts(parts) \o suffix :
        parts \in UNION {[1..n -> TimeParts] : n \in 1..MaxParts},
        suffix \in Suffixes }

\* durations given to format_time: whole and half seconds, below and above
\* a minute, an hour and a hundred hours
TimeDeltas ==
    { timedelta(3600 * h + 60 * m + sec) + half :
        h \in {0, 1, 100}, m \in {0, 5, 59}, sec \in {0, 5, 59}, half \in {0, 1} }

\* start_time arguments of _calculate_duration_between_times
StartStrings == { <<"0", "0", ":", "0", "0">>, <<"x">> }

\* what follows the title in a track name: parenthesis and bracket groups,
\* an edit note, a label with a number, a user note
NameSuffixes ==
    { <<" ", "(", "a", ")">>, <<" ", "[", "a", "]">>,
      <<" ", "A", "B", " ", "[", "x", "]">>,
      <<" ", "A", "B", "C", "D", " ", "1">>,
      <<" ", "1", " ", "a", " ", "S", "a", "v", "e">> }

\* the concatenation of a sequence of texts
RECURSIVE Concatenated(_)
Concatenated(texts) ==
    IF texts = <<>> THEN <<>> ELSE Head(texts) \o Concatenated(Tail(texts))

\* track_part arguments of the cleaners: a title, with and without a
\* trailing blank, followed by suffixes
TrackNames ==
    { title \o Concatenated(suffixes) \o blank :
        title \in { <<"C", "a", "t">>, <<"T", "a", "b", " ">> },
        suffixes \in UNION {[1..n -> NameSuffixes] : n \in 0..MaxSuffixes},
        blank \in { <<>>, <<" ">> } }

\* a child of an element
Child(tag, role, text) == [tag |-> tag, role |-> role, text |-> text]

\* an element of the parsed document
Element(tag, class, isid, children, suggestions) ==
    [tag |-> tag, class |-> class, isid |-> isid, children |-> children,
     suggestions |-> suggestions]

\* a structured item: div class="tlpItem" with a track number, a cue and
\* one span of text
TlpItem(number, cue, isid, text, suggestions) ==
    Element("div", <<"t", "l", "p", "I", "t", "e", "m">>, isid,
            << Child("span", "tracknumber_value", number),
               Child("div", "cue", cue),
               Child("span", "", text) >>,
            suggestions)

\* an element with one text node
Plain(tag, class, text) ==
    Element(tag, class, FALSE, <<Child("span", "", text)>>, <<>>)

\* the elements documents are made of: regular items, names with one, two
\* and three bracket groups, flagged and unflagged ID placeholders with and
\* without a suggestion, a title that starts with "Id", a one-character
\* artist, a "by" line, free text and text without a separator
Elements ==
    { TlpItem(<<"2">>, <<"0", "5", ":", "0", "0">>, FALSE, <<"A", "B", " ", "-", " ", "C", "a", "t">>, <<>>),
      TlpItem(<<"1">>, <<"0", "0", ":", "3", "0">>, FALSE, <<"A", "B", " ", "-", " ", "C", "a", "t", " ", "(", "a", ")", " ", "(", "b", ")">>, <<>>),
      TlpItem(<<"x">>, <<>>, FALSE, <<"C", "D", " ", "-", " ", "T", "a", "b", " ", "(", "a", ")", " ", "(", "b", ")", " ", "(", "c", ")">>, <<>>),
      TlpItem(<<"3">>, <<"0", "2", ":", "3", "0">>, TRUE, <<"I", "D", " ", "-", " ", "I", "D">>, <<>>),
      TlpItem(<<"4">>, <<"1", ":", "0", "2", ":", "3", "0">>, TRUE, <<"D", "a", "t", "a">>, << <<"D", "a", "t", "a">>, <<"C", "D", " ", "-", " ", "T", "a", "b", " ", "[", "x", "]">> >>),
      TlpItem(<<"5">>, <<"0", "7", ":", "0", "0">>, FALSE, <<"I", "D", "-", "I", "D">>, <<>>),
      TlpItem(<<"6">>, <<"0", "8", ":", "0", "0">>, FALSE, <<"A", "B", " ", "-", " ", "I", "d", "o", "l">>, <<>>),
      TlpItem(<<"7">>, <<"0", "9", ":", "0", "0">>, FALSE, <<"I", "D", " ", "-", " ", "C", "a", "t">>, <<>>),
      Plain("div", <<"t", "l", "p", "I", "t", "e", "m">>, <<"D", "a", "t", "a">>),
      Plain("div", <<"t", "l", "p", "_", "7">>, <<"C", "D", " ", "-", " ", "T", "a", "b", " ", "[", "a", "]", " ", "(", "b", ")">>),
      Plain("div", <<"t", "l", "p", "_", "8">>, <<"A", "B", " ", "-", " ", "I", "D">>),
      Plain("li", <<"t", "r", "a", "c", "k">>, <<"A", " ", "-", " ", "C", "a", "t">>),
      Plain("li", <<"s", "o", "n", "g">>, <<"C", "a", "t", " ", "b", "y", " ", "A", "B">>),
      Plain("p", <<>>, <<"A", "B", " ", "-", " ", "C", "a", "t", " ", "D", "a", "t", "a">>),
      Plain("p", <<>>, <<"A", "B", " ", "-", " ", "C", "a", "t", " ", "t", "r", "a", "c", "k", "l", "i", "s", "t">>) }

\* documents that repeat one element just below, at and above the number of
\* tracks of full confidence
LongDocuments ==
    { [k \in 1..n |-> e] :
        n \in (FullConfidenceTracks - 1)..(FullConfidenceTracks + 1),
        e \in Elements }

Documents == UNION {[1..n -> Elements] : n \in 0..MaxElements} \cup LongDocuments

\* total durations that _extract_total_duration finds: none, and 59:00
Durations == { NoTime, <<"5", "9", ":", "0", "0">> }

\* ------------------------------------------------------------------- state
VARIABLES
    heap,            \* the DomainTrack objects, by reference
    input,           \* the caller's list (references), never rebound
    orig,            \* the field values of the caller's tracks at call time
    total_duration,  \* the total_duration argument, drawn where it is read
    tracks,          \* local variable tracks of apply_timing_rules
    adjusted_tracks, \* local variable adjusted_tracks of _process_gaps
    i,               \* loop position of _process_gaps (1-based)
    warnings,        \* the "Overlap detected" records written to the log
    filled,          \* the tracks whose missing end_time _process_gaps filled
    applied,         \* the earlier applications: their result and total_duration
    pc,              \* position in apply_timing_rules
    trail,           \* argument and results of the duration-function calls
    calls,           \* the duration functions called, in order
    document,        \* the parsed document (soup), a sequence of elements
    cls,             \* the class whose extraction methods run
    duration,        \* total_duration of _extract_tracks_from_html
    pattern,         \* position of its loop in extraction_patterns
    invoked,         \* the positions whose extract_func was called, in order
    results,         \* pattern_tracks of each call, in order
    extracted,       \* local variable tracks of _extract_tracks_from_html
    xpc,             \* position in _extract_tracks_from_html and parse
    confidence,      \* confidence of Parser.parse, in tenths
    query,           \* the query argument of TracklistManager.run
    run,             \* the SearchRun that TracklistManager.run builds
    search_results,  \* number of results the search step returned
    parsed_tracklists, \* the parsed tracklists kept by _fetch_and_parse
    result_index,    \* position of the loop of _fetch_and_parse (1-based)
    search_raised,   \* the searcher raised in this run
    mpc,             \* position in TracklistManager.run
    max_retries,     \* max_retries of the operation
    attempt,         \* loop variable attempt of execute_async (0-based)
    executions,      \* the outcomes of the calls of _execute_async so far
    sleeps,          \* the attempts after which retry_delay was waited
    execution_result, \* the ExecutionResult returned
    rpc              \* position in execute_async

\* the variables of the duration-function calls
textvars == <<trail, calls>>

\* the variables of _extract_tracks_from_html
extractvars == <<document, cls, duration, pattern, invoked, results, extracted, xpc,
                 confidence>>

\* the variables of apply_timing_rules
timingvars == <<heap, input, orig, total_duration, tracks, adjusted_tracks, i,
                warnings, filled, applied, pc>>

vars == <<heap, input, orig, total_duration, tracks, adjusted_tracks, i,
          warnings, filled, applied, pc, trail, calls, document, cls, duration, pattern,
          invoked, results, extracted, xpc, confidence, query, run,
          search_results, parsed_tracklists, result_index, search_raised, mpc,
          max_retries, attempt, executions, sleeps, execution_result, rpc>>

\* the variables of TracklistManager.run
managervars == <<query, run, search_results, parsed_tracklists, result_index,
                 search_raised, mpc>>

\* the variables of BaseOperation.execute_async
retryvars == <<max_retries, attempt, executions, sleeps, execution_result, rpc>>

\* the variables of the manager and of the retry loop
servicevars == <<managervars, retryvars>>

\* no run of the manager is in progress
ManagerIdle ==
    /\ query = <<>>
    /\ run = NewRun(0)
    /\ search_results = 0
    /\ parsed_tracklists = <<>>
    /\ result_index = 0
    /\ search_raised = FALSE
    /\ mpc = "idle"

\* no operation is being executed
RetryIdle ==
    /\ max_retries = 0
    /\ attempt = 0
    /\ executions = <<>>
    /\ sleeps = {}
    /\ execution_result = NoResult
    /\ rpc = "idle"

ServiceIdle == ManagerIdle /\ RetryIdle

\* no extraction is running
ExtractIdle ==
    /\ document = <<>>
    /\ cls = ""
    /\ duration = NoTime
    /\ pattern = 0
    /\ invoked = <<>>
    /\ results = <<>>
    /\ extracted = <<>>
    /\ xpc = "idle"
    /\ confidence = NotComputed

Init ==
    /\ heap \in InputLists
    /\ input = [k \in DOMAIN heap |-> k]
    /\ orig = heap
    /\ total_duration = Unread
    /\ tracks = input
    /\ adjusted_tracks = <<>>
    /\ i = 0
    /\ warnings = {}
    /\ filled = {}
    /\ applied = <<>>
    /\ pc = "call"
    /\ trail = <<>>
    /\ calls = <<>>
    /\ ExtractIdle
    /\ ServiceIdle

\* if not tracks: return tracks
ReturnEmpty ==
    /\ pc = "call"
    /\ tracks = <<>>
    /\ pc' = "done"
    /\ UNCHANGED <<heap, input, orig, total_duration, tracks, adjusted_tracks, i, warnings, filled, applied,
                   trail, calls>>
    /\ UNCHANGED extractvars
    /\ UNCHANGED servicevars

\* tracks = sorted(tracks, key=lambda t: self.parse_time(t.start_time))
\* tracks = self._deduplicate_tracks(tracks)
SortAndDedup ==
    /\ pc = "call"
    /\ tracks # <<>>
    /\ LET st == _deduplicate_tracks(heap, SortedByStart(heap, tracks))
       IN  heap' = st.heap /\ tracks' = st.tracks
    /\ pc' = "deduped"
    /\ UNCHANGED <<input, orig, total_duration, adjusted_tracks, i, warnings, filled, applied,
                   trail, calls>>
    /\ UNCHANGED extractvars
    /\ UNCHANGED servicevars

\* tracks = self._add_intro_track(tracks, threshold=intro_outro_threshold)
\* and the entry of _process_gaps
AddIntro ==
    /\ pc = "deduped"
    /\ LET st == _add_intro_track(heap, tracks, intro_outro_threshold)
       IN  heap' = st.heap /\ tracks' = st.tracks
    /\ adjusted_tracks' = <<>>
    /\ i' = 1
    /\ pc' = "gaps"
    /\ UNCHANGED <<input, orig, total_duration, warnings, filled, applied,
                   trail, calls>>
    /\ UNCHANGED extractvars
    /\ UNCHANGED servicevars

\* one iteration of the loop of _process_gaps; the last one returns
\* adjusted_tracks, which apply_timing_rules binds to tracks
ProcessGap ==
    /\ pc = "gaps"
    /\ LET st == GapStep([heap |-> heap, tracks |-> adjusted_tracks],
                         tracks, i, min_gap_threshold)
       IN  /\ heap' = st.heap
           /\ adjusted_tracks' = st.tracks
           /\ IF i < Len(tracks)
              THEN i' = i + 1 /\ UNCHANGED <<tracks, pc>>
              ELSE i' = i /\ tracks' = st.tracks /\ pc' = "gapped"
    /\ warnings' = warnings \cup GapWarnings(heap, tracks, i)
    /\ filled' = filled \cup GapFilled(heap, tracks, i)
    /\ UNCHANGED <<input, orig, total_duration, applied, trail, calls>>
    /\ UNCHANGED extractvars
    /\ UNCHANGED servicevars

\* tracks = self._add_outro_track(tracks, total_duration, threshold=...)
\* an exception raised there leaves apply_timing_rules
AddOutro ==
    /\ pc = "gapped"
    /\ \E total \in Totals \cup {NoDuration} :
           /\ total_duration' = total
           /\ LET st == _add_outro_track(heap, tracks, total, intro_outro_threshold)
              IN  /\ heap' = st.heap
                  /\ tracks' = st.tracks
                  /\ pc' = IF st.outcome = Returned THEN "outro" ELSE st.outcome
    /\ UNCHANGED <<input, orig, adjusted_tracks, i, warnings, filled, applied,
                   trail, calls>>
    /\ UNCHANGED extractvars
    /\ UNCHANGED servicevars

\* renumber sequentially, normalise all time strings, return tracks
Finish ==
    /\ pc = "outro"
    /\ heap' = normalise(renumber(heap, tracks).heap, tracks).heap
    /\ pc' = "done"
    /\ UNCHANGED <<input, orig, total_duration, tracks, adjusted_tracks, i, warnings, filled, applied,
                   trail, calls>>
    /\ UNCHANGED extractvars
    /\ UNCHANGED servicevars

Next ==
    \/ ReturnEmpty
    \/ SortAndDedup
    \/ AddIntro
    \/ ProcessGap
    \/ AddOutro
    \/ Finish

Spec == Init /\ [][Next]_vars

\* ------------------------------------------- calls of the duration functions
\* One argument, a time string or a timedelta, and the duration functions
\* applied to it: parse_time, format_time, each also on the other's result,
\* the normalisation of one boundary, and the two conversions of the engine
\* that have their own parsing code.
TimeInit ==
    /\ heap = <<>>
    /\ input = <<>>
    /\ orig = <<>>
    /\ total_duration = Unread
    /\ tracks = <<>>
    /\ adjusted_tracks = <<>>
    /\ i = 0
    /\ warnings = {}
    /\ filled = {}
    /\ applied = <<>>
    /\ pc = "idle"
    /\ trail \in {<<StrValue(t)>> : t \in TimeStrings}
                \cup {<<TimedeltaValue(td)>> : td \in TimeDeltas}
    /\ calls = <<>>
    /\ ExtractIdle
    /\ ServiceIdle

\* TimingUtils.parse_time(t)
ParseTime ==
    /\ calls = <<>> \/ calls = <<"format_time">>
    /\ Last(trail).kind = "str"
    /\ trail' = Append(trail, ParseTimeCall(Last(trail).val))
    /\ calls' = Append(calls, "parse_time")
    /\ UNCHANGED timingvars
    /\ UNCHANGED extractvars
    /\ UNCHANGED servicevars

\* TimingUtils.format_time(td)
FormatTime ==
    /\ calls = <<>> \/ calls = <<"parse_time">>
    /\ Last(trail).kind = "timedelta"
    /\ trail' = Append(trail, StrValue(format_time_str(Last(trail).val)))
    /\ calls' = Append(calls, "format_time")
    /\ UNCHANGED timingvars
    /\ UNCHANGED extractvars
    /\ UNCHANGED servicevars

\* the normalisation of one boundary at the end of apply_timing_rules
NormaliseBoundary ==
    /\ calls = <<>>
    /\ Last(trail).kind = "str"
    /\ trail' = Append(trail, NormaliseCall(Last(trail).val))
    /\ calls' = <<"normalise">>
    /\ UNCHANGED timingvars
    /\ UNCHANGED extractvars
    /\ UNCHANGED servicevars

\* TracklistManager._duration_to_ms(duration)
DurationToMs ==
    /\ calls = <<>>
    /\ Last(trail).kind = "str"
    /\ trail' = Append(trail, NumberValue(_duration_to_ms(Last(trail).val)))
    /\ calls' = <<"_duration_to_ms">>
    /\ UNCHANGED timingvars
    /\ UNCHANGED extractvars
    /\ UNCHANGED servicevars

\* Parser._calculate_duration_between_times(start_time, end_time), the
\* argument being end_time
CalculateDurationBetweenTimes ==
    /\ calls = <<>>
    /\ Last(trail).kind = "str"
    /\ \E start_time \in StartStrings :
           trail' = trail \o
               << StrValue(start_time),
                  NumberValue(_calculate_duration_between_times(
                                  start_time, Last(trail).val)) >>
    /\ calls' = <<"_calculate_duration_between_times">>
    /\ UNCHANGED timingvars
    /\ UNCHANGED extractvars
    /\ UNCHANGED servicevars

TimeNext ==
    \/ ParseTime
    \/ FormatTime
    \/ NormaliseBoundary
    \/ DurationToMs
    \/ CalculateDurationBetweenTimes

TimeSpec == TimeInit /\ [][TimeNext]_vars

\* ------------------------------------------------- calls of the name cleaners
\* TextCleaner.clean_track_name and Parser._clean_track_name, each applied
\* to a track name and then to its own result, as _parse_artist_track_text
\* followed by _create_domain_track does.
CleanInit ==
    /\ heap = <<>>
    /\ input = <<>>
    /\ orig = <<>>
    /\ total_duration = Unread
    /\ tracks = <<>>
    /\ adjusted_tracks = <<>>
    /\ i = 0
    /\ warnings = {}
    /\ filled = {}
    /\ applied = <<>>
    /\ pc = "idle"
    /\ trail \in {<<StrValue(t)>> : t \in TrackNames}
    /\ calls = <<>>
    /\ ExtractIdle
    /\ ServiceIdle

\* TextCleaner.clean_track_name(track_part)
CleanTrackNameCall ==
    /\ Len(calls) < 2
    /\ \A k \in DOMAIN calls : calls[k] = "clean_track_name"
    /\ trail' = Append(trail, StrValue(clean_track_name(Last(trail).val)))
    /\ calls' = Append(calls, "clean_track_name")
    /\ UNCHANGED timingvars
    /\ UNCHANGED extractvars
    /\ UNCHANGED servicevars

\* Parser._clean_track_name(track_part)
ParserCleanTrackNameCall ==
    /\ Len(calls) < 2
    /\ \A k \in DOMAIN calls : calls[k] = "_clean_track_name"
    /\ trail' = Append(trail, StrValue(_clean_track_name(Last(trail).val)))
    /\ calls' = Append(calls, "_clean_track_name")
    /\ UNCHANGED timingvars
    /\ UNCHANGED extractvars
    /\ UNCHANGED servicevars

CleanNext ==
    \/ CleanTrackNameCall
    \/ ParserCleanTrackNameCall

CleanSpec == CleanInit /\ [][CleanNext]_vars

\* ------------------------------------------------ _extract_tracks_from_html
\* Parser._extract_tracks_from_html of parser.py (cls = "Parser") and of
\* .deprecated/core/parsers/parser.py, which runs the strategies of
\* TrackExtractors (cls = "TrackExtractors").
ExtractInit ==
    /\ heap = <<>>
    /\ input = <<>>
    /\ orig = <<>>
    /\ total_duration = Unread
    /\ tracks = <<>>
    /\ adjusted_tracks = <<>>
    /\ i = 0
    /\ warnings = {}
    /\ filled = {}
    /\ applied = <<>>
    /\ pc = "idle"
    /\ trail = <<>>
    /\ calls = <<>>
    /\ document \in Documents
    /\ cls \in {"Parser", "TrackExtractors"}
    /\ duration \in Durations
    /\ pattern = 1
    /\ invoked = <<>>
    /\ results = <<>>
    /\ extracted = <<>>
    /\ xpc = "loop"
    /\ confidence = NotComputed
    /\ ServiceIdle

\* one pass of the loop: if not tracks, call extract_func and keep its
\* candidates that are not None
TryPattern ==
    /\ xpc = "loop"
    /\ pattern <= Len(extraction_patterns)
    /\ IF extracted = <<>>
       THEN /\ invoked' = Append(invoked, pattern)
            /\ results' = Append(results, extract_func(cls, pattern, document))
            /\ extracted' = LoopBody(extracted, Last(results'))
       ELSE UNCHANGED <<invoked, results, extracted>>
    /\ pattern' = pattern + 1
    /\ UNCHANGED <<document, cls, duration, xpc, confidence>>
    /\ UNCHANGED timingvars
    /\ UNCHANGED textvars
    /\ UNCHANGED servicevars

\* after the loop: sort by track number, apply the timing rules, return.
\* The deprecated parser calls TimingUtils.apply_timing_rules on the class
\* with two arguments, which raises TypeError.
SortAndReturn ==
    /\ xpc = "loop"
    /\ pattern > Len(extraction_patterns)
    /\ IF cls = "Parser"
       THEN /\ extracted' = _apply_timing_rules(SortedByNumber(extracted), duration)
            /\ xpc' = "done"
       ELSE /\ extracted' = SortedByNumber(extracted)
            /\ xpc' = TypeError
    /\ UNCHANGED <<document, cls, duration, pattern, invoked, results, confidence>>
    /\ UNCHANGED timingvars
    /\ UNCHANGED textvars
    /\ UNCHANGED servicevars

\* Parser.parse after _execute_async has returned the tracks: the confidence
\* is computed and the tuple returned
Parse ==
    /\ xpc = "done"
    /\ confidence' = confidence_score(Len(extracted))
    /\ xpc' = "parsed"
    /\ UNCHANGED <<document, cls, duration, pattern, invoked, results, extracted>>
    /\ UNCHANGED timingvars
    /\ UNCHANGED textvars
    /\ UNCHANGED servicevars

ExtractNext ==
    \/ TryPattern
    \/ SortAndReturn
    \/ Parse

ExtractSpec == ExtractInit /\ [][ExtractNext]_vars

\* ------------------------------------------------------------- RepeatSpec
\* apply_timing_rules applied to its own result, as TracklistManager does
\* with the tracks the parser has already reconciled.
\*
\* the most tracks of a list the rules are applied to twice
MaxRepeated == 2

RepeatInit ==
    /\ Init
    /\ Len(heap) <= MaxRepeated

\* apply_timing_rules(result, total_duration): the returned list is the
\* argument of the next call
ApplyAgain ==
    /\ pc = "done"
    /\ applied = <<>>
    /\ applied' = <<[tracks |-> Deref(heap, tracks),
                     total_duration |-> total_duration]>>
    /\ input' = tracks
    /\ orig' = Deref(heap, tracks)
    /\ total_duration' = Unread
    /\ adjusted_tracks' = <<>>
    /\ i' = 0
    /\ filled' = {}
    /\ pc' = "call"
    /\ UNCHANGED <<heap, tracks, warnings, trail, calls>>
    /\ UNCHANGED extractvars
    /\ UNCHANGED servicevars

RepeatNext ==
    \/ ReturnEmpty
    \/ SortAndDedup
    \/ AddIntro
    \/ ProcessGap
    \/ AddOutro
    \/ Finish
    \/ ApplyAgain

RepeatSpec == RepeatInit /\ [][RepeatNext]_vars

\* ------------------------------------------------------------ ManagerSpec
\* TracklistManager.run(query) with a searcher, a fetcher and a parser that
\* may fail in every way: each of them returns or raises.
\*
\* the most results a search returns
MaxResults == 2

\* the most tracks one parsed page has
MaxParsed == 2

\* the queries: query_text.strip() of the callers, and the strings of the tests
Queries == {<<>>, <<" ">>, <<"q">>, <<" ", "q", " ">>}

\* the confidences a parser reports, in tenths
Confidences == {0, 4, 5, 10}

\* (end_time - start_time).total_seconds() * 1000
Elapsed == {0, 1}

\* run = SearchRun(query=query); the tracks of DomainTracklist() are None or
\* the empty list
RunCall ==
    /\ mpc \in {"idle", "returned"}
    /\ \E q \in Queries, default_tracks \in {NoTracks, 0} :
        /\ query' = q
        /\ run' = NewRun(default_tracks)
    /\ search_results' = 0
    /\ parsed_tracklists' = <<>>
    /\ result_index' = 0
    /\ search_raised' = FALSE
    /\ mpc' = "validate"
    /\ UNCHANGED <<retryvars, timingvars, textvars, extractvars>>

\* if not query or not query.strip(): log the error and return run
Validate ==
    /\ mpc = "validate"
    /\ IF EmptyQuery(query)
       THEN /\ run' = log_step(run, "Validation", "error")
            /\ mpc' = "finally"
       ELSE /\ run' = run
            /\ mpc' = "search"
    /\ UNCHANGED <<query, search_results, parsed_tracklists, result_index,
                   search_raised>>
    /\ UNCHANGED <<retryvars, timingvars, textvars, extractvars>>

\* _search_tracklists: the searcher returns a list or raises
SearchTracklists ==
    /\ mpc = "search"
    /\ \/ \E n \in 0..MaxResults :
            /\ run' = log_step(run, "Search",
                               IF n > 0 THEN "success" ELSE "no_results")
            /\ search_results' = n
            /\ search_raised' = FALSE
       \/ /\ run' = log_step(run, "Search", "error")
          /\ search_results' = 0
          /\ search_raised' = TRUE
    /\ result_index' = 1
    /\ mpc' = "fetch"
    /\ UNCHANGED <<query, parsed_tracklists>>
    /\ UNCHANGED <<retryvars, timingvars, textvars, extractvars>>

\* one pass of the loop of _fetch_and_parse: the fetcher raises, returns no
\* content, or returns a page that the parser raises on or parses
FetchAndParse ==
    /\ mpc = "fetch"
    /\ result_index <= search_results
    /\ \/ /\ run' = log_step(run, "Parse", "error")
          /\ parsed_tracklists' = parsed_tracklists
       \/ /\ run' = run
          /\ parsed_tracklists' = parsed_tracklists
       \/ \E n \in 0..MaxParsed, c \in Confidences :
            /\ parsed_tracklists' =
                   IF c >= min_confidence_threshold
                   THEN Append(parsed_tracklists, n)
                   ELSE parsed_tracklists
            /\ run' = log_step(run, "Parse",
                               IF n > 0 THEN "success" ELSE "no_results")
    /\ result_index' = result_index + 1
    /\ UNCHANGED <<query, search_results, search_raised, mpc>>
    /\ UNCHANGED <<retryvars, timingvars, textvars, extractvars>>

\* _merge_results: no tracklists give DomainTracklist(); otherwise the tracks
\* are combined, deduplicated by title and given to _apply_timing_rules, which
\* raises or returns at least one track for at least one track
MergeResults ==
    /\ mpc = "fetch"
    /\ result_index > search_results
    /\ IF parsed_tracklists = <<>>
       THEN /\ run' = log_step(run, "Aggregation", "no_results")
            /\ mpc' = "success"
       ELSE \/ /\ TotalTracks(parsed_tracklists) > 0
               /\ run' = run
               /\ mpc' = "except"
            \/ \E unique_tracks \in 0..(2 * TotalTracks(parsed_tracklists) + 1),
                  ms \in {NoMs} \cup Elapsed :
                 /\ unique_tracks = 0 <=> TotalTracks(parsed_tracklists) = 0
                 /\ run' = log_step(
                        [run EXCEPT !.final_tracklist = unique_tracks,
                                    !.total_duration_ms =
                                        IF ms # NoMs THEN ms ELSE @],
                        "Aggregation", "success")
                 /\ mpc' = "success"
    /\ UNCHANGED <<query, search_results, parsed_tracklists, result_index,
                   search_raised>>
    /\ UNCHANGED <<retryvars, timingvars, textvars, extractvars>>

\* run.success is set from run.final_tracklist
SetSuccess ==
    /\ mpc = "success"
    /\ run' = [run EXCEPT !.success = run_success(run.final_tracklist)]
    /\ mpc' = "finally"
    /\ UNCHANGED <<query, search_results, parsed_tracklists, result_index,
                   search_raised>>
    /\ UNCHANGED <<retryvars, timingvars, textvars, extractvars>>

\* except Exception: the Manager error step is logged
Except ==
    /\ mpc = "except"
    /\ run' = log_step(run, "Manager", "error")
    /\ mpc' = "finally"
    /\ UNCHANGED <<query, search_results, parsed_tracklists, result_index,
                   search_raised>>
    /\ UNCHANGED <<retryvars, timingvars, textvars, extractvars>>

\* finally: run.total_duration_ms is set, and run is returned
Finally ==
    /\ mpc = "finally"
    /\ \E ms \in Elapsed : run' = [run EXCEPT !.total_duration_ms = ms]
    /\ mpc' = "returned"
    /\ UNCHANGED <<query, search_results, parsed_tracklists, result_index,
                   search_raised>>
    /\ UNCHANGED <<retryvars, timingvars, textvars, extractvars>>

ManagerNext ==
    \/ RunCall
    \/ Validate
    \/ SearchTracklists
    \/ FetchAndParse
    \/ MergeResults
    \/ SetSuccess
    \/ Except
    \/ Finally

\* the manager is constructed and no run has started
ManagerInit ==
    /\ heap = <<>>
    /\ input = <<>>
    /\ orig = <<>>
    /\ total_duration = Unread
    /\ tracks = <<>>
    /\ adjusted_tracks = <<>>
    /\ i = 0
    /\ warnings = {}
    /\ filled = {}
    /\ applied = <<>>
    /\ pc = "idle"
    /\ trail = <<>>
    /\ calls = <<>>
    /\ ExtractIdle
    /\ ServiceIdle

ManagerSpec == ManagerInit /\ [][ManagerNext]_vars

\* -------------------------------------------------------------- RetrySpec
\* BaseOperation.execute_async around an operation that returns, times out
\* or raises at every attempt.
\*
\* the largest max_retries an operation is constructed with
MaxRetries == 5

\* what _execute_async returns when it returns
OperationData == {<<>>, <<"x">>}

\* execute_async is called on an operation constructed with some max_retries
ExecuteCall ==
    /\ rpc \in {"idle", "returned"}
    /\ max_retries' \in 0..MaxRetries
    /\ attempt' = 0
    /\ executions' = <<>>
    /\ sleeps' = {}
    /\ execution_result' = NoResult
    /\ rpc' = "loop"
    /\ UNCHANGED <<managervars, timingvars, textvars, extractvars>>

\* one iteration of for attempt in range(self.max_retries): the operation
\* returns data, or wait_for times out, or the operation raises; after a
\* failure retry_delay is waited if another attempt follows
Attempt ==
    /\ rpc = "loop"
    /\ attempt < max_retries
    /\ \/ \E data \in OperationData :
            /\ executions' = Append(executions, "ok")
            /\ execution_result' = ExecutionResult(TRUE, data, attempt + 1)
            /\ rpc' = "returned"
            /\ UNCHANGED <<attempt, sleeps>>
       \/ \E failure \in {"timeout", "error"} :
            /\ executions' = Append(executions, failure)
            /\ IF ShouldRetry(attempt, max_retries)
               THEN /\ sleeps' = sleeps \cup {attempt + 1}
                    /\ attempt' = attempt + 1
                    /\ UNCHANGED <<execution_result, rpc>>
               ELSE /\ execution_result' = ExecutionResult(FALSE, <<>>, attempt + 1)
                    /\ rpc' = "returned"
                    /\ UNCHANGED <<attempt, sleeps>>
    /\ UNCHANGED max_retries
    /\ UNCHANGED <<managervars, timingvars, textvars, extractvars>>

\* the statements after the loop: range(self.max_retries) is exhausted
Exhausted ==
    /\ rpc = "loop"
    /\ attempt >= max_retries
    /\ execution_result' = ExecutionResult(FALSE, <<>>, max_retries)
    /\ rpc' = "returned"
    /\ UNCHANGED <<max_retries, attempt, executions, sleeps>>
    /\ UNCHANGED <<managervars, timingvars, textvars, extractvars>>

RetryNext ==
    \/ ExecuteCall
    \/ Attempt
    \/ Exhausted

RetrySpec == ManagerInit /\ [][RetryNext]_vars

\* ------------------------------------------------------------ properties
\* the returned list, by value
out == Deref(heap, tracks)

Done == pc = "done"

StartOf(t) == parse_time(t.start_time)

EndOf(t) == parse_time(t.end_time)

IsID(t) == t.name = <<"I", "D">> /\ t.artist = <<"I", "D">>

\* every caller track that has an end has start <= end
WellFormedInput ==
    \A k \in DOMAIN orig :
        orig[k].end_time # NoTime => StartOf(orig[k]) <= EndOf(orig[k])

\* the pair at output positions k, k+1 was logged as an overlap
LoggedOverlap(k) ==
    \E w \in warnings : w.track = tracks[k] /\ w.next_track = tracks[k + 1]

\* C1: in the returned list every adjacent pair that was not logged as an
\* overlap by gap processing has end_time equal to the next start_time, and
\* no adjacent pair whatsoever is left with a positive gap.
C1_Gapless ==
    Done =>
        \A k \in 1..(Len(tracks) - 1) :
            /\ LoggedOverlap(k) \/ out[k].end_time = out[k + 1].start_time
            /\ ~(EndOf(out[k]) < StartOf(out[k + 1]))

\* a returned list with a synthetic track in which a short gap was closed at
\* the midpoint and no overlap was logged
C1_Witness ==
    /\ Done
    /\ warnings = {}
    /\ Len(tracks) >= 4
    /\ \E k \in DOMAIN tracks : IsID(out[k])
    /\ \E k \in DOMAIN input :
           /\ orig[k].end_time # NoTime
           /\ heap[k].end_time # format_time(EndOf(orig[k]))
           /\ input[k] # Last(tracks)

\* C2: the returned tracks are numbered 1..N in list order.
C2_DenseNumbers ==
    Done => \A k \in DOMAIN tracks : out[k].track_number = k

\* a returned list with synthetic tracks whose input carried the number 2
\* twice and a missing number
C2_Witness ==
    /\ Done
    /\ Len(tracks) >= 4
    /\ \E k \in DOMAIN tracks : IsID(out[k])
    /\ \E a, b \in DOMAIN orig :
           a # b /\ orig[a].track_number = orig[b].track_number
    /\ \E a \in DOMAIN orig : orig[a].track_number = NoNumber

\* C3 as stated: the returned list is sorted by start_time for every input.
C3_SortedAnyInput ==
    Done =>
        \A k \in 1..(Len(tracks) - 1) : StartOf(out[k]) <= StartOf(out[k + 1])

\* C3 amended: the returned list is sorted by start_time whenever every
\* input track that has an end_time has start <= end.
C3_SortedWellFormed ==
    (Done /\ WellFormedInput) =>
        \A k \in 1..(Len(tracks) - 1) : StartOf(out[k]) <= StartOf(out[k + 1])

\* a well-formed input given out of order, with a duplicate and an overlap,
\* has been reconciled
C3_Witness ==
    /\ Done
    /\ WellFormedInput
    /\ Len(input) = 3
    /\ Len(tracks) >= 3
    /\ warnings # {}
    /\ \E a, b \in DOMAIN orig :
           /\ a < b
           /\ StartOf(orig[a]) > StartOf(orig[b])
           /\ DedupKey(orig[a]) = DedupKey(orig[b])

\* C4: the returned list starts at 00:00:00 and its last track ends exactly
\* at total_duration.
C4_CoversWholeMix ==
    (Done /\ tracks # <<>>) =>
        /\ out[1].start_time = format_time(timedelta(0))
        /\ Last(out).end_time = format_time(total_duration)

\* a missing end counts as the track's start
EndOrStart(t) == IF t.end_time # NoTime THEN EndOf(t) ELSE StartOf(t)

Min(a, b) == IF a <= b THEN a ELSE b

Max(a, b) == IF a >= b THEN a ELSE b

\* the keys the candidates can have
Keys == {DedupKey(t) : t \in Catalogue}

\* the pairs a < b of input positions that share a key no third track has
DuplicatePairs ==
    UNION { LET group == {a \in DOMAIN orig : DedupKey(orig[a]) = key}
            IN  IF Cardinality(group) = 2
                THEN {p \in group \X group : p[1] < p[2]}
                ELSE {} : key \in Keys }

\* the positions of list l whose track has the key of input track a
WithKey(h, l, a) ==
    LET key == DedupKey(orig[a])
    IN  {k \in DOMAIN l : DedupKey(h[l[k]]) = key}

\* exactly one track of list l has the key of input tracks a and b, and it
\* spans [min(a1,a2), max(b1,b2)]
MergedSpan(h, l, a, b) ==
    LET ks == WithKey(h, l, a)
    IN  /\ Cardinality(ks) = 1
        /\ \A k \in ks :
               /\ StartOf(h[l[k]]) = Min(StartOf(orig[a]), StartOf(orig[b]))
               /\ EndOf(h[l[k]]) = Max(EndOrStart(orig[a]), EndOrStart(orig[b]))

Permuted(p) == [k \in DOMAIN input |-> input[p[k]]]

\* C6: every permutation of the input list reconciles to the same sequence
\* of track values.
C6_OrderIndependent ==
    Done =>
        \A p \in Permutations(DOMAIN input) :
            LET res == apply_timing_rules(orig, Permuted(p), total_duration)
            IN  Deref(res.heap, res.tracks) = out

AtPair == pc = "gaps" /\ i < Len(tracks) /\ heap[tracks[i]].end_time # NoTime

PairGap == StartOf(heap[tracks[i + 1]]) - EndOf(heap[tracks[i]])

\* C8: a pair with a gap above 60s gets exactly one new ID/ID track spanning
\* [current.end, next.start] between its tracks, whose boundaries stay.
C8_LongGap ==
    [][(AtPair /\ PairGap > timedelta(60)) =>
        LET cur == tracks[i]
            nxt == tracks[i + 1]
            new == Len(heap) + 1
        IN  /\ adjusted_tracks' = adjusted_tracks \o <<cur, new>>
            /\ Len(heap') = Len(heap) + 1
            /\ IsID(heap'[new])
            /\ StartOf(heap'[new]) = EndOf(heap[cur])
            /\ EndOf(heap'[new]) = StartOf(heap[nxt])
            /\ heap'[cur].end_time = heap[cur].end_time
            /\ heap'[nxt].start_time = heap[nxt].start_time
    ]_vars

\* gap processing has put an ID track after a real track
C8_Witness ==
    /\ pc = "gaps"
    /\ Len(adjusted_tracks) >= 2
    /\ IsID(heap[Last(adjusted_tracks)])
    /\ ~IsID(heap[adjusted_tracks[Len(adjusted_tracks) - 1]])
    /\ EndOf(heap[Last(adjusted_tracks)])
         - StartOf(heap[Last(adjusted_tracks)]) > timedelta(60)

\* C9 as stated: a pair with 0 < gap <= 60s gets no ID track and both
\* boundaries move to the exact midpoint current.end + gap/2.
C9_ShortGapExactMidpoint ==
    [][(AtPair /\ PairGap > 0 /\ PairGap <= timedelta(60)) =>
        LET cur == tracks[i]
            nxt == tracks[i + 1]
        IN  /\ adjusted_tracks' = Append(adjusted_tracks, cur)
            /\ Len(heap') = Len(heap)
            /\ EndOf(heap'[cur]) = EndOf(heap[cur]) + PairGap \div 2
            /\ StartOf(heap'[nxt]) = EndOf(heap[cur]) + PairGap \div 2
    ]_vars

\* whole seconds of a timedelta, as a timedelta
WholeSeconds(td) == timedelta(td \div timedelta(1))

\* C9 amended: a pair with 0 < gap <= 60s gets no ID track and both
\* boundaries move to the same value, the midpoint current.end + gap/2
\* truncated to whole seconds.
C9_ShortGap ==
    [][(AtPair /\ PairGap > 0 /\ PairGap <= timedelta(60)) =>
        LET cur == tracks[i]
            nxt == tracks[i + 1]
        IN  /\ adjusted_tracks' = Append(adjusted_tracks, cur)
            /\ Len(heap') = Len(heap)
            /\ heap'[cur].end_time = heap'[nxt].start_time
            /\ EndOf(heap'[cur]) = WholeSeconds(EndOf(heap[cur]) + PairGap \div 2)
    ]_vars

\* gap processing has closed a gap of exactly 60s at its midpoint
C9_Witness ==
    /\ pc = "gaps"
    /\ i \in 2..Len(tracks)
    /\ \E k \in DOMAIN orig :
           /\ tracks[i - 1] = k
           /\ orig[k].end_time # NoTime
           /\ StartOf(heap[tracks[i]]) = EndOf(heap[k])
           /\ EndOf(heap[k]) = EndOf(orig[k]) + timedelta(30)
    /\ Last(adjusted_tracks) = tracks[i - 1]

\* C10: an overlapping pair is logged and nothing else: no track is
\* inserted, no field changes, the loop moves on to the next pair; and the
\* two boundaries of a logged pair keep their instants up to the return.
C10_OverlapRecordOnly ==
    [][/\ (AtPair /\ PairGap < 0) =>
            /\ adjusted_tracks' = Append(adjusted_tracks, tracks[i])
            /\ heap' = heap
            /\ i' = i + 1
            /\ pc' = "gaps"
            /\ \E w \in warnings' :
                   w.track = tracks[i] /\ w.next_track = tracks[i + 1]
       /\ \A w \in warnings :
            /\ EndOf(heap'[w.track]) = EndOf(heap[w.track])
            /\ StartOf(heap'[w.next_track]) = StartOf(heap[w.next_track])
            /\ StartOf(heap[w.next_track]) - EndOf(heap[w.track]) = 0 - w.overlap
    ]_vars

\* a list has been returned in which an overlap was logged and a later pair
\* still got its gap filled by an ID track, followed by an outro
C10_Witness ==
    /\ Done
    /\ \E w \in warnings :
           \E k \in DOMAIN tracks :
               /\ tracks[k] = w.next_track
               /\ k + 2 <= Len(tracks)
               /\ IsID(out[k + 1])
               /\ ~IsID(out[k + 2])
    /\ \A k \in DOMAIN tracks : out[k].track_number = k

\* ------------------------------------------------------------- outro step
\* the outro step is about to run on a last track whose end is known
AtOutroKnownEnd ==
    /\ pc = "gapped"
    /\ heap[Last(tracks)].end_time # NoTime

\* the outro step is about to run on a last track without an end
AtOutroMissingEnd ==
    /\ pc = "gapped"
    /\ heap[Last(tracks)].end_time = NoTime

\* C11: with a known last end and a total duration, a difference
\* total_duration - last.end of at most the threshold (the boundary and a
\* last end beyond total_duration included) makes the last end
\* total_duration and appends nothing; a larger difference appends exactly
\* one ID/ID track [last.end, total_duration] and leaves the last real
\* track alone.
C11_OutroKnownEnd ==
    [][(AtOutroKnownEnd /\ pc' # pc /\ total_duration' # NoDuration) =>
          LET last == Last(tracks)
              last_end == EndOf(heap[last])
          IN  IF total_duration' - last_end <= intro_outro_threshold
              THEN /\ tracks' = tracks
                   /\ EndOf(heap'[last]) = total_duration'
              ELSE /\ Len(tracks') = Len(tracks) + 1
                   /\ SubSeq(tracks', 1, Len(tracks)) = tracks
                   /\ IsID(heap'[Last(tracks')])
                   /\ StartOf(heap'[Last(tracks')]) = last_end
                   /\ EndOf(heap'[Last(tracks')]) = total_duration'
                   /\ heap'[last] = heap[last]
    ]_vars

\* C12: when the last track has no end, the outro step sets it to
\* total_duration if there is one; without a total duration the step
\* returns normally and the end stays unknown.
C12_OutroMissingEnd ==
    [][(AtOutroMissingEnd /\ pc' # pc) =>
          /\ pc' = "outro"
          /\ tracks' = tracks
          /\ IF total_duration' # NoDuration
             THEN EndOf(heap'[Last(tracks)]) = total_duration'
             ELSE heap'[Last(tracks)].end_time = NoTime
    ]_vars

\* ------------------------------------------------ duration parse and format
\* a non-empty time string that parse_time rejects
Malformed(t) == t # <<>> /\ parse_time_str(t) = ValueError

\* the string arguments of the calls made so far
Arguments ==
    {trail[k].val : k \in {j \in 1..(Len(trail) - 1) : trail[j].kind = "str"}}

\* C13: every operation handed a time string that cannot be parsed raises;
\* none returns a value (such as zero) for it.
C13_MalformedIsHardFailure ==
    (calls # <<>> /\ \E t \in Arguments : Malformed(t)) =>
        Last(trail).kind = "raise"

\* the text before the fractional-second suffix
BeforeFraction(t) == split(t, ".")[1]

\* MM:SS, H:MM:SS or HH:MM:SS, read generously: two or three parts, each a
\* non-empty run of digits
TimeShape(t) ==
    LET parts == split(BeforeFraction(t), ":")
    IN  /\ Len(parts) \in {2, 3}
        /\ \A k \in DOMAIN parts :
               /\ parts[k] # <<>>
               /\ \A j \in DOMAIN parts[k] : IsDigit(parts[k][j])

\* hours*3600 + minutes*60 + seconds of a string of that shape
ShapeSeconds(t) ==
    LET parts == split(BeforeFraction(t), ":")
    IN  IF Len(parts) = 2
        THEN 60 * DigitsValue(parts[1]) + DigitsValue(parts[2])
        ELSE 3600 * DigitsValue(parts[1]) + 60 * DigitsValue(parts[2])
                 + DigitsValue(parts[3])

\* C14: parse_time returns hours*3600 + minutes*60 + seconds exactly for the
\* strings of the shape MM:SS, H:MM:SS or HH:MM:SS with an optional
\* fractional suffix, and raises for every other string.
C14_ParseExactlyTheShapes ==
    (calls # <<>> /\ calls[1] = "parse_time") =>
        IF TimeShape(trail[1].val)
        THEN trail[2] = TimedeltaValue(timedelta(ShapeSeconds(trail[1].val)))
        ELSE trail[2].kind = "raise"

\* format_time was applied to a duration and parse_time to its result
FormattedThenParsed == calls = <<"format_time", "parse_time">>

\* C15 as claimed: parse_time(format_time(d)) = d for every non-negative d,
\* half-second values included.
C15_ParseAfterFormatExact ==
    FormattedThenParsed => trail[3] = trail[1]

\* C15: parse_time(format_time(d)) is d cut down to whole seconds, hence d
\* itself for every non-negative whole-second d.
C15_ParseAfterFormat ==
    FormattedThenParsed =>
        /\ trail[3] = TimedeltaValue(WholeSeconds(trail[1].val))
        /\ (trail[1].val % timedelta(1) = 0 => trail[3] = trail[1])

\* a whole-second duration of a hundred hours and more went through both
\* functions and came back, and so did one of less than a minute
C15_Witness ==
    /\ FormattedThenParsed
    /\ trail[1].val \in {timedelta(360000 + 59 * 60 + 5), timedelta(59)}
    /\ trail[3] = trail[1]

\* canonical zero-padded HH:MM:SS, minutes and seconds below 60, no fraction
Canonical(t) ==
    /\ Len(t) = 8
    /\ t[3] = ":" /\ t[6] = ":"
    /\ \A k \in {1, 2, 4, 5, 7, 8} : IsDigit(t[k])
    /\ DigitValue(t[4]) < 6
    /\ DigitValue(t[7]) < 6

\* C16: format_time(parse_time(s)) = s for every canonical HH:MM:SS string
\* s, and the normalisation of a boundary leaves such a string unchanged.
C16_FormatAfterParse ==
    /\ (calls = <<"parse_time", "format_time">> /\ Canonical(trail[1].val))
           => trail[3] = trail[1]
    /\ (calls = <<"normalise">> /\ Canonical(trail[1].val))
           => trail[2] = trail[1]

\* 59:00:59 was parsed and formatted back to itself
C16_Witness ==
    /\ calls = <<"parse_time", "format_time">>
    /\ trail[1] = StrValue(<<"5", "9", ":", "0", "0", ":", "5", "9">>)
    /\ trail[2] = TimedeltaValue(timedelta(59 * 3600 + 59))
    /\ trail[3] = trail[1]

\* ------------------------------------------------------ extraction strategies
\* positions of the candidates of a strategy's result that are not None
NonNull(result) == {k \in DOMAIN result : result[k] # NoTrack}

\* what extraction leaves of a candidate when it sorts and times the result
Identity(t) == <<t.name, t.artist, t.track_number>>

\* l holds exactly the candidates of result that are not None, each as often
\* as result holds it
SameCandidates(l, result) ==
    /\ Len(l) = Cardinality(NonNull(result))
    /\ \A j \in DOMAIN l :
           Cardinality({k \in DOMAIN l : Identity(l[k]) = Identity(l[j])})
               = Cardinality({k \in NonNull(result) :
                                Identity(result[k]) = Identity(l[j])})

\* C17: the strategies are invoked in the order of extraction_patterns
\* (tlpItem blocks, tagged elements, tlp-ID containers, text lines), each at
\* most once; every strategy invoked before the
\* last one returned no candidate that is not None; while no invoked strategy
\* has returned such a candidate the track list is empty and every strategy up
\* to the current position has been invoked; once one has, the track list
\* holds exactly its candidates that are not None and no later strategy is
\* invoked.
C17_FirstProductiveStrategyWins ==
    /\ invoked = [k \in 1..Len(invoked) |-> k]
    /\ Len(results) = Len(invoked)
    /\ \A k \in 1..(Len(results) - 1) : NonNull(results[k]) = {}
    /\ (\A k \in DOMAIN results : NonNull(results[k]) = {})
           => extracted = <<>> /\ Len(invoked) = pattern - 1
    /\ \A k \in DOMAIN results :
           NonNull(results[k]) # {}
               => k = Len(invoked) /\ SameCandidates(extracted, results[k])

\* extraction has returned the candidates of the third strategy after the
\* first two returned only None, and the fourth, never invoked, would have
\* returned candidates too
C17_Witness ==
    /\ xpc = "done"
    /\ invoked = <<1, 2, 3>>
    /\ results[1] # <<>>
    /\ results[2] # <<>>
    /\ extracted # <<>>
    /\ NonNull(extract_func(cls, 4, document)) # {}

\* ------------------------------------------------------- extracted candidates
\* C18: every candidate in the extracted track list has an artist and a name
\* longer than one character.
C18_SplitFieldsLongerThanOne ==
    \A k \in DOMAIN extracted :
        Len(extracted[k].artist) > 1 /\ Len(extracted[k].name) > 1

\* the structured items of the document, in the order the first strategy
\* visits them
Items == SelectSeq(document, IsTlpItem)

\* the text of a structured item after its track number and cue
Title(element) == Strip(Last(element.children).text)

\* the artist and the name written in a title "<artist> - <name>"
TitleArtist(element) == Strip(SplitOnce(Title(element), <<" ", "-", " ">>)[1])

TitleName(element) == Strip(SplitOnce(Title(element), <<" ", "-", " ">>)[2])

\* number of bracket and parenthesis groups of a name
Groups(name) == Count(name, "[") + Count(name, "(")

\* C19: a structured item that the code does not handle as an ID placeholder
\* and whose title is "<artist> - <name>", both longer than one character and
\* the name with at most two bracket or parenthesis groups, yields a candidate
\* with that name unchanged.
C19_AtMostTwoGroupsKept ==
    results # <<>> =>
        \A k \in DOMAIN Items :
            ( /\ ~_is_id_track(Items[k], get_text(Items[k]))
              /\ Contains(Title(Items[k]), <<" ", "-", " ">>)
              /\ Len(TitleArtist(Items[k])) > 1
              /\ Len(TitleName(Items[k])) > 1
              /\ Groups(TitleName(Items[k])) <= 2 )
                => /\ results[1][k] # NoTrack
                   /\ results[1][k].name = TitleName(Items[k])

\* the title is the placeholder pattern: "ID - ID", "ID-ID" or
\* "<artist> - ID", in any case
PlaceholderTitle(title) ==
    \/ Lower(title) = <<"i", "d", " ", "-", " ", "i", "d">>
    \/ Lower(title) = <<"i", "d", "-", "i", "d">>
    \/ /\ Len(title) > 5
       /\ SubSeq(Lower(title), Len(title) - 4, Len(title)) = <<" ", "-", " ", "i", "d">>

\* the item is an ID placeholder: flagged, or titled with the pattern
IsPlaceholder(element) == element.isid \/ PlaceholderTitle(Title(element))

\* the literal candidate of an unresolved placeholder
LiteralID(element) ==
    DomainTrack(<<"I", "D">>, <<"I", "D">>,
                StartTimeOf(element, FindChild(element, "div", "cue")), NoTime,
                TrackNumberOf(element, FindChild(element, "span", "tracknumber_value")))

\* C20: a structured item that is an ID placeholder and has no suggestion
\* yields the literal ID/ID candidate with the item's track_number and
\* start_time; an item that is not an ID placeholder does not yield an ID/ID
\* candidate.
C20_PlaceholderExactly ==
    results # <<>> =>
        \A k \in DOMAIN Items :
            /\ IsPlaceholder(Items[k])
               /\ _find_suggestion_for_id_track(Items[k]) = NoSuggestion
                   => results[1][k] = LiteralID(Items[k])
            /\ ~IsPlaceholder(Items[k])
                   => ~( /\ results[1][k] # NoTrack
                         /\ results[1][k].name = <<"I", "D">>
                         /\ results[1][k].artist = <<"I", "D">> )

\* ---------------------------------------------------------------- confidence
\* C21: the confidence that parse returns is len(tracks)/10 capped at 1 (in
\* tenths: the number of tracks capped at 10); it lies in [0, 1], is at least
\* the confidence of every smaller number of tracks, and is 0 exactly when
\* no strategy returned a candidate that is not None, in which case the
\* returned track list is empty.
C21_Confidence ==
    xpc = "parsed" =>
        /\ confidence = Min(FullConfidenceTracks, Len(extracted))
        /\ confidence >= 0
        /\ confidence <= FullConfidenceTracks
        /\ \A n \in 0..Len(extracted) :
               Min(FullConfidenceTracks, n) <= confidence
        /\ confidence = 0
               <=> \A k \in DOMAIN results : NonNull(results[k]) = {}
        /\ confidence = 0 => extracted = <<>>

\* parse has returned more than ten tracks with confidence 1
C21_Witness ==
    /\ xpc = "parsed"
    /\ Len(extracted) > FullConfidenceTracks
    /\ confidence = FullConfidenceTracks

\* -------------------------------------------------------------- name cleaning
\* C22: a cleaner applied to its own result returns that result.
C22_CleanIdempotent ==
    Len(calls) = 2 => trail[3] = trail[2]

\* ------------------------------------------------------- the caller's tracks
\* C23: every track object the caller passed in has the start_time, end_time
\* and track_number it had at the call.
C23_InputsUntouched ==
    \A k \in DOMAIN input :
        /\ heap[input[k]].start_time = orig[k].start_time
        /\ heap[input[k]].end_time = orig[k].end_time
        /\ heap[input[k]].track_number = orig[k].track_number

\* some step of the run has status 'error'
HasErrorStep == \E k \in DOMAIN run.steps : run.steps[k].status = "error"

\* C24: TracklistManager.run always comes to its return, whatever the
\* searcher, the fetcher and the parser do; the SearchRun it returns has
\* total_duration_ms set, has success true exactly when the final tracklist
\* holds at least one track, and has a step with status 'error' whenever the
\* search step raised.
C24_RunAlwaysReturns ==
    /\ mpc \notin {"idle", "returned"} => ENABLED ManagerNext
    /\ mpc = "returned" =>
        /\ run.total_duration_ms # NoMs
        /\ run.success <=> (run.final_tracklist # NoTracks /\ run.final_tracklist >= 1)
        /\ search_raised => HasErrorStep

C24_Witness ==
    /\ mpc = "returned"
    /\ search_raised
    /\ HasErrorStep
    /\ ~run.success
    /\ run.total_duration_ms # NoMs

\* the position of track r in the list l
PositionOf(l, r) == CHOOSE k \in DOMAIN l : l[k] = r

\* C25: the iteration of gap processing that meets a non-last track without
\* end_time gives it the start_time of the next track, appends nothing but
\* the track itself (no ID track) and leaves the next track's start_time as
\* it was (no midpoint); in the returned list the track ends where the track
\* after it starts.
C25_FillBeforeEvaluate ==
    [][/\ (pc = "gaps" /\ i < Len(tracks) /\ heap[tracks[i]].end_time = NoTime) =>
            /\ heap'[tracks[i]].end_time = heap[tracks[i + 1]].start_time
            /\ adjusted_tracks' = Append(adjusted_tracks, tracks[i])
            /\ Len(heap') = Len(heap)
            /\ heap'[tracks[i + 1]].start_time = heap[tracks[i + 1]].start_time
            /\ tracks[i] \in filled'
       /\ pc' = "done" =>
            \A r \in filled :
                /\ \E k \in DOMAIN tracks' : tracks'[k] = r
                /\ PositionOf(tracks', r) < Len(tracks')
                /\ heap'[r].end_time =
                       heap'[tracks'[PositionOf(tracks', r) + 1]].start_time
                /\ ~IsID(heap'[tracks'[PositionOf(tracks', r) + 1]])]_vars

C25_Witness == Done /\ filled # {} /\ Len(tracks) >= 3

\* the second application has returned, with the total_duration of the first
AppliedTwice ==
    /\ Done
    /\ applied # <<>>
    /\ total_duration = applied[1].total_duration

\* C26: applying the rules to their own result with the same total duration
\* returns the same sequence of tracks: names, artists, boundaries, numbers.
C26_Idempotent == AppliedTwice => out = applied[1].tracks

\* C27: deduplication leaves the placeholder tracks (artist = name = 'ID')
\* alone: every placeholder of the list it is given is an entry of the list
\* it returns, with the boundaries it came with.
C27_PlaceholdersKeptApart ==
    [][(pc = "call" /\ pc' = "deduped") =>
          \A k \in DOMAIN tracks :
              IsID(heap[tracks[k]]) =>
                  /\ \E j \in DOMAIN tracks' : tracks'[j] = tracks[k]
                  /\ heap'[tracks[k]] = heap[tracks[k]]]_vars

\* the key of the placeholder tracks
IDKey == <<<<"i", "d">>, <<"i", "d">>>>

\* the keys of the identified tracks the call was given
IdentifiedKeys == {DedupKey(orig[k]) : k \in DOMAIN orig} \ {IDKey}

\* the earliest start among the given tracks of key a
EarliestStart(a) ==
    LET starts == {StartOf(orig[k]) : k \in {n \in DOMAIN orig : DedupKey(orig[n]) = a}}
    IN  CHOOSE m \in starts : \A x \in starts : m <= x

\* the positions of the returned list that hold a track of key a
Holding(a) == {j \in DOMAIN out : DedupKey(out[j]) = a}

\* C28: the returned list holds every identified key of the input in exactly
\* one track, these tracks stand in ascending order of their earliest input
\* start, and every other returned track has name = artist = 'ID'.
C28_IdentifiedTracksPreserved ==
    Done =>
        /\ \A a \in IdentifiedKeys : Cardinality(Holding(a)) = 1
        /\ \A j \in DOMAIN out : DedupKey(out[j]) \in IdentifiedKeys \/ IsID(out[j])
        /\ \A j1, j2 \in DOMAIN out :
               (/\ j1 < j2
                /\ DedupKey(out[j1]) \in IdentifiedKeys
                /\ DedupKey(out[j2]) \in IdentifiedKeys) =>
                   EarliestStart(DedupKey(out[j1])) <= EarliestStart(DedupKey(out[j2]))

C28_Witness ==
    /\ Done
    /\ applied # <<>>
    /\ Cardinality(IdentifiedKeys) = 2
    /\ \E k \in DOMAIN orig : IsID(orig[k])
    /\ Len(out) > Cardinality(IdentifiedKeys) + 1

\* total_duration is at least every start and every end of the caller's tracks
TotalCoversInput ==
    /\ total_duration \notin {Unread, NoDuration}
    /\ \A k \in DOMAIN orig :
        /\ StartOf(orig[k]) <= total_duration
        /\ orig[k].end_time # NoTime => EndOf(orig[k]) <= total_duration

\* C29: when every caller track that has an end has start <= end and
\* total_duration is at least every start and end of the caller's tracks,
\* every returned track, real or synthetic, has an end_time and has
\* start_time <= end_time.
C29_NoNegativeLength ==
    (Done /\ WellFormedInput /\ TotalCoversInput) =>
        \A j \in DOMAIN out :
            /\ out[j].end_time # NoTime
            /\ StartOf(out[j]) <= EndOf(out[j])

C29_Witness ==
    /\ Done
    /\ WellFormedInput
    /\ TotalCoversInput
    /\ warnings # {}
    /\ filled # {}
    /\ Len(out) > Len(orig)

\* the attempts made so far that failed
FailedAttempts == {k \in DOMAIN executions : executions[k] # "ok"}

\* C30: execute_async calls the operation at most max_retries times and no
\* more after a success; a success returns success=True with the 1-based
\* number of that attempt; max_retries failures return success=False with
\* attempt = max_retries; retry_delay is waited after every failed attempt
\* but the last; and the loop always reaches a return.
C30_BoundedRetry ==
    /\ Len(executions) <= max_retries
    /\ \A k \in DOMAIN executions : k < Len(executions) => executions[k] # "ok"
    /\ rpc = "loop" => ENABLED RetryNext
    /\ rpc = "loop" => sleeps = FailedAttempts
    /\ rpc = "returned" =>
        /\ execution_result.success <=>
               (executions # <<>> /\ executions[Len(executions)] = "ok")
        /\ execution_result.success =>
               execution_result.attempt = Len(executions)
        /\ ~execution_result.success =>
               /\ Len(executions) = max_retries
               /\ execution_result.attempt = max_retries
        /\ sleeps = 1..(Len(executions) - 1)

C30_Witness ==
    /\ rpc = "returned"
    /\ max_retries = 3
    /\ ~execution_result.success
    /\ executions = <<"timeout", "error", "timeout">>
    /\ sleeps = {1, 2}

====
